---- MODULE Spec2Model ----
(***************************************************************************)
(* hills: a replicated document store.  Client databases (TypedTree,      *)
(* HillsClient, the client sync worker) talk to one relay (sync_server)   *)
(* over ordered sockets.  One user tree is modelled; keys are <<id, rev>>. *)
(***************************************************************************)
EXTENDS Integers, Sequences, FiniteSets, TLC

\* ---------------------------------------------------------------- bounds
\* Number of public API calls and crafted wire inputs one behaviour makes.
MaxOps == 3
\* Longest command channel the model lets a client fill (the code: 64).
MaxCmd == 2
\* Number of connect, disconnect and insert calls one behaviour of Keys makes.
MaxSessions == 6
\* Number of inserts one behaviour of Pools makes.
MaxInserts == 4
\* Number of open_tree calls one behaviour of Trees makes.
MaxOpens == 2
\* Longest field list and variant list of the reflected types Compat compares.
MaxFields == 2
\* Largest iteration a frame of Apply carries.
MaxIter == 2

\* ------------------------------------------------------ program constants
KEYS_PER_REQUEST == 1000
\* request_keys asks for more keys below this many available ids
MinKeysAvailable == 3

\* -------------------------------------------------------------- universe
Clients == {"A", "B"}
\* the relay's own uuid, presented on connect
RelayUuid == "R"
\* uuid value of a database that is not bound to a relay yet
Unbound == "unbound"
\* payloads; the NamedIndex extractor reads the name out of the payload
DataVals == {1, 2}

\* ----------------------------------------------------------- map helpers
\* sled trees and HashMaps are functions with a growing/shrinking domain
EmptyMap == [k \in {} |-> 0]
Has(f, k) == k \in DOMAIN f
Put(f, k, v) == [x \in (DOMAIN f) \cup {k} |-> IF x = k THEN v ELSE f[x]]
Del(f, k) == [x \in (DOMAIN f) \ {k} |-> f[x]]
SeqHas(s, e) == \E i \in 1..Len(s) : s[i] = e

\* ------------------------------------------------------------------ keys
GenericKey(id, revision) == <<id, revision>>
KeyId(key) == key[1]
KeyRev(key) == key[2]
\* GenericKey::previous_revision, defined only when revision > 0
previous_revision(key) == <<key[1], key[2] - 1>>

\* --------------------------------------------------------------- records
\* Record { meta_iteration, meta {key, version, modified_on}, data_iteration,
\* data }
Record(key, mi, ver, by, di, data) ==
    [key |-> key, meta_iteration |-> mi, version |-> ver, modified_on |-> by,
     data_iteration |-> di, data |-> data]

\* ------------------------------------------------------ schema evolutions
\* SimpleVersion { major, minor } and its Ord
SimpleVersion(major, minor) == <<major, minor>>
cmp(a, b) ==
    IF a[1] > b[1] THEN "Greater"
    ELSE IF a[1] < b[1] THEN "Less"
    ELSE IF a[2] > b[2] THEN "Greater"
    ELSE IF a[2] < b[2] THEN "Less"
    ELSE "Equal"

\* reflected types: StructField, EnumFields, EnumVariant, TypeInfo
StructField(ident, ty) == [ident |-> ident, ty |-> ty]
Unit == [kind |-> "Unit"]
Named(fields) == [kind |-> "Named", fields |-> fields]
Unnamed(tys) == [kind |-> "Unnamed", fields |-> tys]
EnumVariant(ident, fields) == [ident |-> ident, fields |-> fields]
Struct(fields) == [kind |-> "Struct", fields |-> fields]
Enum(variants) == [kind |-> "Enum", variants |-> variants]

\* TypeCollection { root, refs }; its derived equality is equality of values
TypeCollection(root, info) == [root |-> root, refs |-> Put(EmptyMap, root, info)]

\* the types of every pair a zip of two vectors yields are equal
SameTypes_any(prev, next) == TRUE
SameTypes(prev, next) ==
    \A i \in 1..(IF Len(prev) < Len(next) THEN Len(prev) ELSE Len(next)) :
        prev[i].ty = next[i].ty

is_enum_fields_compatible(prev_field, next_fields) ==
    CASE prev_field.kind = "Named" ->
            /\ next_fields.kind = "Named"
            /\ Len(prev_field.fields) = Len(next_fields.fields)
            /\ SameTypes(prev_field.fields, next_fields.fields)
      [] prev_field.kind = "Unnamed" ->
            /\ next_fields.kind = "Unnamed"
            /\ prev_field.fields = next_fields.fields
      [] OTHER -> next_fields = Unit

\* evolution_check.rs: renaming and added struct fields are compatible,
\* changed types and added enum variants are not
is_backwards_compatible(previous, next) ==
    IF ~Has(previous.refs, previous.root) THEN FALSE
    ELSE IF ~Has(next.refs, previous.root) THEN FALSE
    ELSE LET prev_root == previous.refs[previous.root]
             next_root == next.refs[previous.root]
         IN  IF prev_root.kind = "Struct"
             THEN /\ next_root.kind = "Struct"
                  /\ Len(prev_root.fields) <= Len(next_root.fields)
                  /\ SameTypes(prev_root.fields, next_root.fields)
             ELSE /\ next_root.kind = "Enum"
                  /\ Len(prev_root.variants) = Len(next_root.variants)
                  /\ \A i \in 1..Len(prev_root.variants) :
                        is_enum_fields_compatible(prev_root.variants[i].fields,
                                                  next_root.variants[i].fields)

\* TreeDescriptor { evolutions, versioning }
TreeDescriptor(evolutions, flag) == [evolutions |-> evolutions, versioning |-> flag]

\* the largest evolution a descriptor knows, 0.0 when it knows none
max_evolution(descriptor) ==
    IF DOMAIN descriptor.evolutions = {} THEN SimpleVersion(0, 0)
    ELSE CHOOSE m \in DOMAIN descriptor.evolutions :
            \A k \in DOMAIN descriptor.evolutions : cmp(m, k) # "Less"

\* RawTreeBundle { data, versioning, indexers }: the flag of the open tree
RawTreeBundle(flag) == [versioning |-> flag]

\* the evolution and the type collection of the payloads this model stores
FirstEvolution == SimpleVersion(0, 0)
FirstCollection == TypeCollection("V", Struct(<<StructField("x", "u8")>>))

\* the descriptor open_cold_tree writes when it creates the tree
FirstDescriptor(flag) ==
    TreeDescriptor(Put(EmptyMap, FirstEvolution, FirstCollection), flag)

VARIABLES
    versioning,   \* the tree's versioning flag (TreeRoot::versioning)
    descriptors,  \* descriptors[c]: <<>> or <<TreeDescriptor>> of the tree at c
    open_trees,   \* open_trees[c]: <<>> or <<RawTreeBundle>> of the running process
    store,        \* store[c]: client c's data tree, key -> Record
    pool,         \* pool[c]: the _key_pool entry, a sequence of <<start, end>>
    index,        \* index[c]: NamedIndex storage, name -> key
    mirror,       \* mirror[c]: client-side RecordBorrows, key -> queue of uuids
    serverUuid,   \* serverUuid[c]: the _server_uuid binding
    cmdq,         \* cmdq[c]: command channel from the API to the sync worker
    connected,    \* connected[c]: worker holds a socket (ws_txrx is Some)
    backlog,      \* backlog[c]: telemetry tally of changes made while offline
    error_message, \* error_message[c]: telemetry text of the worker's last error
    dropped,      \* dropped[c]: history of the changes the offline worker let go
    c2r,          \* c2r[c]: frames in flight from client c to the relay
    r2c,          \* r2c[c]: frames in flight from the relay to client c
    conn,         \* conn[c]: relay connection task: "none", "accepted", "open"
    stateInfo,    \* stateInfo[c]: the task's State.info (ClientInfo copy)
    clientsTree,  \* the relay's _clients tree: uuid -> issued key ranges
    relayStore,   \* the relay's data tree, key -> Record
    removed,      \* the relay's _removed_records tree (tombstones)
    relayBorrows, \* the relay's RecordBorrows, key -> queue of uuids
    treeInfo,     \* <<>> or <<next_key>>: the relay's <tree>_info entry
    bcast,        \* bcast[c]: broadcast receiver queue of c's connection task
    gks,          \* gks[c]: next_key read by a GetKeySet handler not yet written
    hot,          \* hot[c]: <<>> or the hot-sync event c's handler checked but has not applied
    worker,       \* worker[c]: "running" or "exited": the client's event_loop task
    last,         \* outcome of the latest API call or relay hot-sync decision
    ops           \* API calls and crafted inputs made so far

vars == <<versioning, descriptors, open_trees, store, pool, index, mirror, serverUuid, cmdq, connected,
          backlog, error_message, dropped, c2r, r2c, conn, stateInfo, clientsTree, relayStore, removed,
          relayBorrows, treeInfo, bcast, gks, hot, worker, last, ops>>

treeVars == <<versioning, descriptors, open_trees>>
clientVars == <<store, pool, index, mirror, serverUuid, cmdq, connected, backlog>>
relayVars == <<conn, stateInfo, clientsTree, relayStore, removed, relayBorrows,
               treeInfo, bcast, gks>>

NoInfo == [registered |-> FALSE, key_ranges |-> <<>>]
NoOutcome == [op |-> "none"]
NoError == ""
UuidMismatch == "Server UUID does not match with the current database"

\* empty stores, no session, a relay that never served anyone
FreshNodes ==
    /\ store = [c \in Clients |-> EmptyMap]
    /\ pool = [c \in Clients |-> <<>>]
    /\ index = [c \in Clients |-> EmptyMap]
    /\ mirror = [c \in Clients |-> EmptyMap]
    /\ cmdq = [c \in Clients |-> <<>>]
    /\ connected = [c \in Clients |-> FALSE]
    /\ backlog = [c \in Clients |-> 0]
    /\ error_message = [c \in Clients |-> NoError]
    /\ dropped = [c \in Clients |-> <<>>]
    /\ c2r = [c \in Clients |-> <<>>]
    /\ r2c = [c \in Clients |-> <<>>]
    /\ conn = [c \in Clients |-> "none"]
    /\ stateInfo = [c \in Clients |-> NoInfo]
    /\ clientsTree = EmptyMap
    /\ relayStore = EmptyMap
    /\ removed = {}
    /\ relayBorrows = EmptyMap
    /\ treeInfo = <<>>
    /\ bcast = [c \in Clients |-> <<>>]
    /\ gks = [c \in Clients |-> <<>>]
    /\ hot = [c \in Clients |-> <<>>]
    /\ worker = [c \in Clients |-> "running"]
    /\ last = NoOutcome
    /\ ops = 0

\* State after construction of fresh databases: HillsClient::open on an empty
\* directory, HillsServer::start on an empty directory, tree opened.
InitFresh ==
    /\ versioning \in BOOLEAN
    /\ descriptors = [c \in Clients |-> <<FirstDescriptor(versioning)>>]
    /\ open_trees = [c \in Clients |-> <<RawTreeBundle(versioning)>>]
    /\ serverUuid = [c \in Clients |-> Unbound]
    /\ FreshNodes

\* =================================================================
\* Pure functions of the client database
\* =================================================================

\* KeyPool::get: the id handed out, or -1 for None
KeyPoolGetId(ranges) == IF ranges = <<>> THEN -1 ELSE ranges[1][1]
\* a get that hands the id out and leaves the pool as it was
KeyPoolGetRest_keep(ranges) == ranges

\* KeyPool::get: the ranges left after the call
KeyPoolGetRest(ranges) ==
    IF ranges = <<>> THEN <<>>
    ELSE IF ranges[1][1] + 1 >= ranges[1][2]
         THEN Tail(ranges)
         ELSE <<(<<ranges[1][1] + 1, ranges[1][2]>>)>> \o Tail(ranges)

\* KeyPool::total_keys_available
RECURSIVE total_keys_available(_)
total_keys_available(ranges) ==
    IF ranges = <<>> THEN 0
    ELSE (ranges[1][2] - ranges[1][1]) + total_keys_available(Tail(ranges))

\* KeyPool::feed_for: push the range at the back
feed_for(ranges, range) == Append(ranges, range)

\* is_checked_out that accepts any place in the queue, not only the head
is_checked_out_waiting(borrows, uuid, key) ==
    /\ Has(borrows, key)
    /\ SeqHas(borrows[key], uuid)

\* TypedTree::is_checked_out on a RecordBorrows table
is_checked_out(borrows, uuid, key) ==
    /\ Has(borrows, key)
    /\ Len(borrows[key]) > 0
    /\ borrows[key][1] = uuid

\* to_bytes(&Evolving(value)): the stored bytes wrap the user value
to_bytes(value) == <<"Evolving", value>>
\* deserializing the stored bytes gives the wrapped value back
from_bytes(data) == data[2]

\* The extractor registered with the NamedIndex: the payload is the name,
\* post-processing is the default (case sensitive, nothing ignored).
Extract(data) == from_bytes(data)

\* first entry (in BTreeMap order) whose value is the key, 0 when none
OldName(idx, key) ==
    IF \E s \in DOMAIN idx : idx[s] = key
    THEN CHOOSE s \in DOMAIN idx :
            /\ idx[s] = key
            /\ \A t \in DOMAIN idx : idx[t] = key => s <= t
    ELSE 0

\* NamedIndexer::update; ok = FALSE is Err(Error::Index(..))
IndexerUpdate(idx, key, data, action) ==
    LET s == Extract(data) IN
    CASE action = "Insert" ->
            IF Has(idx, s) THEN [ok |-> FALSE, index |-> idx]
            ELSE [ok |-> TRUE, index |-> Put(idx, s, key)]
      [] action = "Update" ->
            LET old == OldName(idx, key) IN
            IF old = 0 THEN [ok |-> FALSE, index |-> idx]
            ELSE IF old # s
                 THEN IF Has(idx, s) THEN [ok |-> FALSE, index |-> idx]
                      ELSE [ok |-> TRUE, index |-> Put(Del(idx, old), s, key)]
                 ELSE [ok |-> TRUE, index |-> idx]
      [] OTHER -> [ok |-> TRUE, index |-> Del(idx, s)]

\* every record written as a draft, whatever the tree's flag
NewVersion_draft(v) == "Draft"

\* Version written by insert/update for the tree's versioning flag
NewVersion(v) == IF v THEN "Draft" ELSE "NonVersioned"

\* RecordHotChange handed to the sync worker
Change(key, kind) == [cmd |-> "Change", key |-> key, kind |-> kind]

\* TypedTree::insert on (pool, data tree, index): result, new state and the
\* commands sent to the worker.  The key leaves the pool before any check.
insert(ranges, tree, idx, uuid, value) ==
    LET id == KeyPoolGetId(ranges)
        generic_key == GenericKey(id, 0)
        rest == KeyPoolGetRest(ranges)
        data == to_bytes(value)
        ix == IndexerUpdate(idx, generic_key, data, "Insert")
    IN  IF id = -1
        THEN [res |-> "OutOfKeys", key |-> generic_key, pool |-> ranges,
              store |-> tree, index |-> idx, cmds |-> <<>>]
        ELSE IF Has(tree, generic_key)
        THEN [res |-> "Internal", key |-> generic_key, pool |-> rest,
              store |-> tree, index |-> idx, cmds |-> <<>>]
        ELSE IF ~ix.ok
        THEN [res |-> "Index", key |-> generic_key, pool |-> rest,
              store |-> tree, index |-> idx, cmds |-> <<>>]
        ELSE [res |-> "Ok", key |-> generic_key, pool |-> rest,
              store |-> Put(tree, generic_key,
                            Record(generic_key, 0, NewVersion(versioning), uuid, 0,
                                   data)),
              index |-> ix.index,
              cmds |-> <<Change(generic_key, "CreateOrChange")>>]

Unchanged(res, tree, idx) == [res |-> res, store |-> tree, index |-> idx, cmds |-> <<>>]

\* TypedTree::update
update(borrows, tree, idx, uuid, key, value) ==
    IF ~is_checked_out(borrows, uuid, key)
    THEN Unchanged("Usage:not checked out", tree, idx)
    ELSE IF ~versioning /\ KeyRev(key) # 0
    THEN Unchanged("Usage:un-versioned", tree, idx)
    ELSE IF KeyRev(key) > 0 /\ ~Has(tree, previous_revision(key))
    THEN Unchanged("Internal", tree, idx)
    ELSE IF KeyRev(key) > 0 /\ tree[previous_revision(key)].version = "Draft"
    THEN Unchanged("VersioningMismatch", tree, idx)
    ELSE IF ~Has(tree, key)
    THEN Unchanged("Usage:not found", tree, idx)
    ELSE IF versioning /\ tree[key].version = "Released"
    THEN Unchanged("VersioningMismatch", tree, idx)
    ELSE LET data == to_bytes(value)
             ix == IndexerUpdate(idx, key, data, "Update") IN
         IF ~ix.ok
         THEN Unchanged("Index", tree, idx)
         ELSE [res |-> "Ok",
               store |-> Put(tree, key,
                             Record(key, tree[key].meta_iteration + 1,
                                    NewVersion(versioning), uuid,
                                    tree[key].data_iteration + 1, data)),
               index |-> ix.index,
               cmds |-> <<Change(key, "CreateOrChange")>>]

\* TypedTree::remove; "None" is Ok(None), "Ok" is Ok(Some(()))
remove(borrows, tree, idx, uuid, key) ==
    IF ~is_checked_out(borrows, uuid, key)
    THEN Unchanged("Usage:not checked out", tree, idx)
    ELSE IF ~Has(tree, key)
    THEN Unchanged("None", tree, idx)
    ELSE IF tree[key].version = "Released"
    THEN Unchanged("Usage:released", tree, idx)
    ELSE [res |-> "Ok",
          store |-> Del(tree, key),
          index |-> IndexerUpdate(idx, key, tree[key].data, "Remove").index,
          cmds |-> <<Change(key, "Remove")>>]

\* =================================================================
\* Wire events (sync.rs Event) and the shared record application
\* =================================================================
NoAddr == "none"
\* events that carry no payload (MetaChanged, Removed)
NoData == <<>>

HotSyncEvent(key, kind, mi, ver, by, di, data, source_addr) ==
    [type |-> "HotSyncEvent", key |-> key, kind |-> kind, meta_iteration |-> mi,
     version |-> ver, modified_on |-> by, data_iteration |-> di, data |-> data,
     source_addr |-> source_addr]
RemovedEvent(key, source_addr) ==
    HotSyncEvent(key, "Removed", 0, "NonVersioned", NoAddr, 0, NoData, source_addr)
PresentSelf(uuid) == [type |-> "PresentSelf", uuid |-> uuid]
TreeOverview(records) == [type |-> "TreeOverview", records |-> records]
RequestRecords(keys) == [type |-> "RequestRecords", keys |-> keys]
GetKeySet == [type |-> "GetKeySet"]
KeySet(range) == [type |-> "KeySet", keys |-> range]
CheckOutEv(keys) == [type |-> "CheckOut", keys |-> keys]
ReturnEv(keys) == [type |-> "Return", keys |-> keys]
CheckedOut(key, queue) == [type |-> "CheckedOut", key |-> key, queue |-> queue]
CloseFrame == [type |-> "Close"]

\* keys of a set in ascending byte order (the order sled iterates a tree in)
KeyLess(a, b) == a[1] < b[1] \/ (a[1] = b[1] /\ a[2] < b[2])
RECURSIVE SortedKeys(_)
SortedKeys(S) ==
    IF S = {} THEN <<>>
    ELSE LET m == CHOOSE a \in S : \A b \in S \ {a} : KeyLess(a, b)
         IN <<m>> \o SortedKeys(S \ {m})

\* the records map send_tree_overviews builds for one tree
Overview(tree) ==
    [k \in DOMAIN tree |-> <<tree[k].meta_iteration, tree[k].data_iteration>>]

\* compare_and_request_missing_records: keys missing or outdated locally
MissingOrOutdated(tree, records) ==
    {k \in DOMAIN records :
        \/ ~Has(tree, k)
        \/ tree[k].data_iteration < records[k][2]
        \/ tree[k].meta_iteration < records[k][1]}

\* handle_incoming_record, Created arm: write only when the key is absent.
\* idx is the receiver's index; withIdx is FALSE on the relay (indexers = None).
\* An indexer error is logged and the record is written all the same.
HandleCreated(tree, idx, ev, withIdx) ==
    IF Has(tree, ev.key)
    THEN [store |-> tree, index |-> idx]
    ELSE [store |-> Put(tree, ev.key,
                        Record(ev.key, ev.meta_iteration, ev.version, ev.modified_on,
                               ev.data_iteration, ev.data)),
          index |-> IF withIdx
                    THEN IndexerUpdate(idx, ev.key, ev.data, "Insert").index
                    ELSE idx]

\* a Changed arm that applies whatever arrives
ChangedIgnored_never(old, ev) == FALSE

\* a Changed arm that looks at the data iteration alone
ChangedIgnored_data(old, ev) == ev.data_iteration <= old.data_iteration

\* the iteration test of the Changed arm: TRUE when the event is ignored
ChangedIgnored(old, ev) ==
    \/ ev.meta_iteration <= old.meta_iteration
    \/ ev.data_iteration <= old.data_iteration

\* handle_incoming_record, Changed arm, for a key that is present
HandleChanged(tree, idx, ev, withIdx) ==
    IF ~Has(tree, ev.key) THEN [store |-> tree, index |-> idx]
    ELSE IF ChangedIgnored(tree[ev.key], ev) THEN [store |-> tree, index |-> idx]
    ELSE [store |-> Put(tree, ev.key,
                        Record(ev.key, ev.meta_iteration, ev.version, ev.modified_on,
                               ev.data_iteration, ev.data)),
          index |-> IF withIdx
                    THEN IndexerUpdate(idx, ev.key, ev.data, "Update").index
                    ELSE idx]

\* a MetaChanged arm that applies whatever arrives
MetaIgnored_never(old, ev) == FALSE

\* the iteration test of the MetaChanged arm: TRUE when the event is ignored
MetaIgnored(old, ev) == ev.meta_iteration <= old.meta_iteration

\* handle_incoming_record, MetaChanged arm: no create, data kept
HandleMetaChanged(tree, idx, ev) ==
    IF ~Has(tree, ev.key) THEN [store |-> tree, index |-> idx]
    ELSE IF MetaIgnored(tree[ev.key], ev) THEN [store |-> tree, index |-> idx]
    ELSE [store |-> Put(tree, ev.key,
                        Record(ev.key, ev.meta_iteration, ev.version, ev.modified_on,
                               tree[ev.key].data_iteration, tree[ev.key].data)),
          index |-> idx]

\* a Removed arm that deletes the record and leaves the indexers alone
HandleRemoved_unindexed(tree, idx, ev, withIdx) ==
    [store |-> Del(tree, ev.key), index |-> idx]

\* handle_incoming_record, Removed arm
HandleRemoved(tree, idx, ev, withIdx) ==
    IF Has(tree, ev.key)
    THEN [store |-> Del(tree, ev.key),
          index |-> IF withIdx
                    THEN IndexerUpdate(idx, ev.key, tree[ev.key].data, "Remove").index
                    ELSE idx]
    ELSE [store |-> tree, index |-> idx]

\* handle_incoming_record: CreatedOrChanged takes the Created arm for an
\* absent key and the Changed arm for a present one.
handle_incoming_record(tree, idx, ev, withIdx) ==
    CASE ev.kind = "CreatedOrChanged" ->
            IF Has(tree, ev.key) THEN HandleChanged(tree, idx, ev, withIdx)
            ELSE HandleCreated(tree, idx, ev, withIdx)
      [] ev.kind = "MetaChanged" -> HandleMetaChanged(tree, idx, ev)
      [] OTHER -> HandleRemoved(tree, idx, ev, withIdx)

\* send_hot_change: the frames one RecordHotChange turns into.  The record
\* is read when the worker sends, not when the change was made.
send_hot_change(tree, change, source_addr) ==
    IF change.kind = "Remove" THEN <<RemovedEvent(change.key, source_addr)>>
    ELSE IF ~Has(tree, change.key) THEN <<>>
    ELSE LET r == tree[change.key] IN
         IF change.kind = "ModifyMeta"
         THEN <<HotSyncEvent(change.key, "MetaChanged", r.meta_iteration, r.version,
                             r.modified_on, 0, NoData, source_addr)>>
         ELSE <<HotSyncEvent(change.key, "CreatedOrChanged", r.meta_iteration,
                             r.version, r.modified_on, r.data_iteration, r.data,
                             source_addr)>>

\* send_records: one CreatedOrChanged per requested key that exists
RECURSIVE send_records(_, _, _)
send_records(tree, keys, source_addr) ==
    IF keys = <<>> THEN <<>>
    ELSE (IF Has(tree, Head(keys))
          THEN send_hot_change(tree, Change(Head(keys), "CreateOrChange"), source_addr)
          ELSE <<>>) \o send_records(tree, Tail(keys), source_addr)

\* request_keys for the one managed tree
request_keys(ranges) ==
    IF total_keys_available(ranges) < MinKeysAvailable THEN <<GetKeySet>> ELSE <<>>

\* =================================================================
\* Relay (sync_server.rs)
\* =================================================================

\* owns_key with the two range comparisons joined by "or"
owns_key_either(key_ranges, key) ==
    \E i \in 1..Len(key_ranges) :
        key_ranges[i][1] <= KeyId(key) \/ KeyId(key) < key_ranges[i][2]

\* ClientInfo::owns_key over the ranges issued for the tree
owns_key(key_ranges, key) ==
    \E i \in 1..Len(key_ranges) :
        key_ranges[i][1] <= KeyId(key) /\ KeyId(key) < key_ranges[i][2]

\* a CheckOut arm that pushes without looking
CheckOutQueue_always(queue, uuid) == Append(queue, uuid)

\* CheckOut arm for one key: push the uuid unless it already waits
CheckOutQueue(queue, uuid) ==
    IF ~SeqHas(queue, uuid) THEN Append(queue, uuid) ELSE queue

\* a Return arm that takes the caller out wherever it waits
ReturnQueue_anywhere(queue, uuid) ==
    SelectSeq(queue, LAMBDA u : u # uuid)

\* Return arm for one key: pop the head when it is the caller
ReturnQueue(queue, uuid) ==
    IF Len(queue) > 0 /\ queue[1] = uuid THEN Tail(queue) ELSE queue

\* the loop over keys of the CheckOut | Return arm; entry().or_default()
\* leaves an (empty) queue behind for every key it visits
RECURSIVE ApplyBorrows(_, _, _, _)
ApplyBorrows(borrows, keys, uuid, is_checking_out) ==
    IF keys = <<>> THEN [borrows |-> borrows, queue_changed |-> FALSE]
    ELSE LET key == Head(keys)
             queue == IF Has(borrows, key) THEN borrows[key] ELSE <<>>
             q2 == IF is_checking_out THEN CheckOutQueue(queue, uuid)
                   ELSE ReturnQueue(queue, uuid)
             rest == ApplyBorrows(Put(borrows, key, q2), Tail(keys), uuid,
                                  is_checking_out)
         IN [borrows |-> rest.borrows,
             queue_changed |-> (q2 # queue) \/ rest.queue_changed]

\* send_current_borrows: every non-empty queue as CheckedOut
RECURSIVE BorrowFrames(_, _, _)
BorrowFrames(borrows, keys, skipEmpty) ==
    IF keys = <<>> THEN <<>>
    ELSE (IF Has(borrows, Head(keys))
             /\ ~(skipEmpty /\ borrows[Head(keys)] = <<>>)
          THEN <<CheckedOut(Head(keys), borrows[Head(keys)])>>
          ELSE <<>>) \o BorrowFrames(borrows, Tail(keys), skipEmpty)
send_current_borrows(borrows) ==
    BorrowFrames(borrows, SortedKeys(DOMAIN borrows), TRUE)

\* relay side of the overview comparison: tombstoned keys are answered with
\* Removed, the others are compared as on the client
\* a comparison that finds no listed key among the tombstones
FoundInRemoved_none(records, tombstones) == {}

FoundInRemoved(records, tombstones) == (DOMAIN records) \cap tombstones
RECURSIVE RemovedFrames(_)
RemovedFrames(keys) ==
    IF keys = <<>> THEN <<>>
    ELSE <<RemovedEvent(Head(keys), NoAddr)>> \o RemovedFrames(Tail(keys))
RelayCompare(tree, records, tombstones) ==
    LET live == [k \in (DOMAIN records) \ tombstones |-> records[k]] IN
    <<RequestRecords(SortedKeys(MissingOrOutdated(tree, live)))>>
        \o RemovedFrames(SortedKeys(FoundInRemoved(records, tombstones)))

\* the HotSyncEvent arm without the look-up in the tombstones
RelayHotDecision_untombstoned(info, ev, tombstones) ==
    IF ~info.registered THEN "unregistered"
    ELSE IF ev.kind = "Removed" THEN "apply"
    ELSE IF ev.meta_iteration = 0 /\ ~owns_key(info.key_ranges, ev.key)
    THEN "not owner"
    ELSE "apply"

\* authorization and tombstone checks of the HotSyncEvent arm
RelayHotDecision(info, ev, tombstones) ==
    IF ~info.registered THEN "unregistered"
    ELSE IF ev.kind = "Removed" THEN "apply"
    ELSE IF ev.meta_iteration = 0 /\ ~owns_key(info.key_ranges, ev.key)
    THEN "not owner"
    ELSE IF ev.key \in tombstones THEN "tombstoned"
    ELSE "apply"

\* a broadcast branch that sends every event on
RelayForwards_all(ev, remote_addr) == TRUE

\* ws_event_loop's filter on a broadcast hot-sync event
RelayForwards(ev, remote_addr) == ev.source_addr # remote_addr

BSync(ev) == [type |-> "Sync", event |-> ev]
BorrowsChanged(keys) == [type |-> "BorrowsChanged", keys |-> keys]

\* what process_message leaves unchanged unless an arm says otherwise
RelayKeep(c) ==
    [info |-> stateInfo[c], clients |-> clientsTree, store |-> relayStore,
     removed |-> removed, borrows |-> relayBorrows, treeInfo |-> treeInfo,
     out |-> <<>>, bc |-> <<>>, gks |-> <<>>, last |-> last]

RelayHotOutcome(c, ev, res) ==
    [op |-> "relay_hot", node |-> c, key |-> ev.key, kind |-> ev.kind, res |-> res]

\* process_message for one frame from connection c
process_message(c, msg) ==
    LET keep == RelayKeep(c) IN
    CASE msg.type = "PresentSelf" ->
            LET known == Has(clientsTree, msg.uuid)
                ranges == IF known THEN clientsTree[msg.uuid] ELSE <<>>
            IN [keep EXCEPT
                   !.info = [registered |-> TRUE, key_ranges |-> ranges],
                   !.clients = IF known THEN clientsTree
                               ELSE Put(clientsTree, msg.uuid, <<>>),
                   !.out = (IF treeInfo # <<>>
                            THEN <<TreeOverview(Overview(relayStore))>>
                            ELSE <<>>) \o send_current_borrows(relayBorrows)]
      [] msg.type = "TreeOverview" ->
            [keep EXCEPT
                   !.treeInfo = IF treeInfo = <<>> THEN <<0>> ELSE treeInfo,
                   !.out = RelayCompare(relayStore, msg.records, removed)]
      [] msg.type = "GetKeySet" ->
            IF ~stateInfo[c].registered \/ treeInfo = <<>> THEN keep
            ELSE [keep EXCEPT !.gks = <<treeInfo[1]>>]
      [] msg.type \in {"CheckOut", "Return"} ->
            IF ~stateInfo[c].registered THEN keep
            ELSE LET r == ApplyBorrows(relayBorrows, msg.keys, c,
                                       msg.type = "CheckOut")
                 IN [keep EXCEPT
                        !.borrows = r.borrows,
                        !.bc = IF r.queue_changed
                               THEN <<BorrowsChanged(msg.keys)>> ELSE <<>>]
      [] msg.type = "HotSyncEvent" ->
            LET d == RelayHotDecision(stateInfo[c], msg, removed) IN
            IF d # "apply"
            THEN [keep EXCEPT !.last = RelayHotOutcome(c, msg, d)]
            ELSE [keep EXCEPT
                    !.removed = IF msg.kind = "Removed"
                                THEN removed \cup {msg.key} ELSE removed,
                    !.borrows = IF msg.kind = "Removed"
                                THEN Del(relayBorrows, msg.key) ELSE relayBorrows,
                    !.store = handle_incoming_record(relayStore, EmptyMap, msg,
                                                     FALSE).store,
                    !.bc = <<BSync([msg EXCEPT !.source_addr = c])>>,
                    !.last = RelayHotOutcome(c, msg, d)]
      [] msg.type = "RequestRecords" ->
            [keep EXCEPT !.out = send_records(relayStore, msg.keys, c)]
      [] OTHER -> keep

Subscribed(d) == conn[d] \in {"accepted", "open"}
Publish(events) ==
    [d \in Clients |-> IF Subscribed(d) THEN bcast[d] \o events ELSE bcast[d]]

\* the task spawned by ws_server_acceptor starts: present_self
RelayAccept(c) ==
    /\ conn[c] = "accepted"
    /\ conn' = [conn EXCEPT ![c] = "open"]
    /\ r2c' = [r2c EXCEPT ![c] = Append(@, PresentSelf(RelayUuid))]
    /\ UNCHANGED <<treeVars, hot, worker, error_message, dropped, clientVars, c2r, stateInfo, clientsTree, relayStore,
                   removed, relayBorrows, treeInfo, bcast, gks, last, ops>>

\* ws_event_loop, socket branch: Close ends the task, anything else goes
\* through process_message
RelayRecv(c) ==
    /\ conn[c] = "open"
    /\ gks[c] = <<>>
    /\ hot[c] = <<>>
    /\ c2r[c] # <<>>
    /\ LET msg == Head(c2r[c]) IN
       IF msg.type = "Close"
       THEN /\ conn' = [conn EXCEPT ![c] = "none"]
            /\ stateInfo' = [stateInfo EXCEPT ![c] = NoInfo]
            /\ bcast' = [bcast EXCEPT ![c] = <<>>]
            /\ c2r' = [c2r EXCEPT ![c] = <<>>]
            /\ r2c' = [r2c EXCEPT ![c] = <<>>]
            /\ UNCHANGED <<clientsTree, relayStore, removed, relayBorrows, treeInfo,
                           gks, last>>
       ELSE LET r == process_message(c, msg) IN
            /\ c2r' = [c2r EXCEPT ![c] = Tail(@)]
            /\ stateInfo' = [stateInfo EXCEPT ![c] = r.info]
            /\ clientsTree' = r.clients
            /\ relayStore' = r.store
            /\ removed' = r.removed
            /\ relayBorrows' = r.borrows
            /\ treeInfo' = r.treeInfo
            /\ r2c' = [r2c EXCEPT ![c] = @ \o r.out]
            /\ bcast' = Publish(r.bc)
            /\ gks' = [gks EXCEPT ![c] = r.gks]
            /\ last' = r.last
            /\ UNCHANGED conn
    /\ UNCHANGED <<treeVars, hot, worker, error_message, dropped, clientVars, ops>>

\* GetKeySet arm after next_key was read: write next_key + KEYS_PER_REQUEST,
\* record the range in ClientInfo, persist it, reply with KeySet
RelayGetKeySetWrite(c) ==
    /\ conn[c] = "open"
    /\ gks[c] # <<>>
    /\ LET next_key == gks[c][1]
           new_range == <<next_key, next_key + KEYS_PER_REQUEST>>
           ranges == Append(stateInfo[c].key_ranges, new_range)
       IN /\ treeInfo' = <<next_key + KEYS_PER_REQUEST>>
          /\ stateInfo' = [stateInfo EXCEPT ![c].key_ranges = ranges]
          /\ clientsTree' = Put(clientsTree, c, ranges)
          /\ r2c' = [r2c EXCEPT ![c] = Append(@, KeySet(new_range))]
    /\ gks' = [gks EXCEPT ![c] = <<>>]
    /\ UNCHANGED <<treeVars, hot, worker, error_message, dropped, clientVars, c2r, conn, relayStore, removed,
                   relayBorrows, bcast, last, ops>>

\* the frames a connection task sends for one broadcast event
BroadcastFrames(c, event) ==
    IF event.type = "Sync"
    THEN IF RelayForwards(event.event, c) THEN <<event.event>> ELSE <<>>
    ELSE BorrowFrames(relayBorrows, event.keys, FALSE)

\* ws_event_loop, broadcast branch
RelayBroadcast(c) ==
    /\ conn[c] = "open"
    /\ gks[c] = <<>>
    /\ hot[c] = <<>>
    /\ bcast[c] # <<>>
    /\ bcast' = [bcast EXCEPT ![c] = Tail(@)]
    /\ r2c' = [r2c EXCEPT ![c] = @ \o BroadcastFrames(c, Head(bcast[c]))]
    /\ UNCHANGED <<treeVars, hot, worker, error_message, dropped, clientVars, c2r, conn, stateInfo, clientsTree,
                   relayStore, removed, relayBorrows, treeInfo, gks, last, ops>>

\* =================================================================
\* Client sync worker (sync_client.rs event_loop)
\* =================================================================

\* what the worker leaves unchanged unless an arm says otherwise
ClientKeep(c) ==
    [store |-> store[c], index |-> index[c], pool |-> pool[c],
     mirror |-> mirror[c], serverUuid |-> serverUuid[c], out |-> <<>>,
     disconnect |-> FALSE, error_message |-> error_message[c]]

\* a CheckedOut arm that leaves the mirror as it is
MirrorCheckedOut_kept(borrows, msg) == borrows

\* CheckedOut at the client: the relay's queue replaces the mirror's entry
MirrorCheckedOut(borrows, msg) == Put(borrows, msg.key, msg.queue)

\* the PresentSelf arm's test of the relay's uuid against the binding
uuid_matches_any(server_uuid, uuid) == TRUE
uuid_matches(server_uuid, uuid) == server_uuid = uuid

\* the worker's reaction to one frame from the relay
client_message(c, msg) ==
    LET keep == ClientKeep(c) IN
    CASE msg.type = "PresentSelf" ->
            IF serverUuid[c] = Unbound
            THEN [keep EXCEPT !.serverUuid = msg.uuid]
            ELSE IF uuid_matches(serverUuid[c], msg.uuid)
            THEN [keep EXCEPT
                    !.out = <<PresentSelf(c), TreeOverview(Overview(store[c]))>>
                            \o request_keys(pool[c])]
            ELSE [keep EXCEPT !.disconnect = TRUE, !.error_message = UuidMismatch]
      [] msg.type = "TreeOverview" ->
            [keep EXCEPT
                !.out = <<RequestRecords(
                            SortedKeys(MissingOrOutdated(store[c], msg.records)))>>]
      [] msg.type = "KeySet" ->
            [keep EXCEPT !.pool = feed_for(pool[c], msg.keys)]
      [] msg.type = "CheckedOut" ->
            [keep EXCEPT !.mirror = MirrorCheckedOut(mirror[c], msg)]
      [] msg.type = "HotSyncEvent" ->
            LET r == handle_incoming_record(store[c], index[c], msg, TRUE) IN
            [keep EXCEPT !.store = r.store, !.index = r.index]
      [] msg.type = "RequestRecords" ->
            [keep EXCEPT !.out = send_records(store[c], msg.keys, NoAddr)]
      [] OTHER -> keep

\* event_loop, connected branch, socket arm
ClientRecv(c) ==
    /\ worker[c] = "running"
    /\ connected[c]
    /\ r2c[c] # <<>>
    /\ LET r == client_message(c, Head(r2c[c])) IN
       /\ store' = [store EXCEPT ![c] = r.store]
       /\ index' = [index EXCEPT ![c] = r.index]
       /\ pool' = [pool EXCEPT ![c] = r.pool]
       /\ mirror' = [mirror EXCEPT ![c] = r.mirror]
       /\ serverUuid' = [serverUuid EXCEPT ![c] = r.serverUuid]
       /\ error_message' = [error_message EXCEPT ![c] = r.error_message]
       /\ connected' = [connected EXCEPT ![c] = ~r.disconnect]
       /\ r2c' = [r2c EXCEPT ![c] = IF r.disconnect THEN <<>> ELSE Tail(@)]
       /\ c2r' = [c2r EXCEPT ![c] = IF r.disconnect THEN Append(@, CloseFrame)
                                     ELSE @ \o r.out]
    /\ UNCHANGED <<treeVars, hot, worker, dropped, cmdq, backlog, relayVars, last, ops>>

\* the frames the connected worker sends for one command
command_frames(c, cmd) ==
    CASE cmd.cmd = "Change" -> send_hot_change(store[c], cmd, NoAddr)
      [] cmd.cmd = "CheckOut" -> <<CheckOutEv(<<cmd.key>>)>>
      [] cmd.cmd = "Release" -> <<ReturnEv(<<cmd.key>>)>>
      [] cmd.cmd = "TreeCreated" -> request_keys(pool[c])
      [] OTHER -> <<>>

\* event_loop, connected branch, command arm
ClientCmdConnected(c) ==
    /\ worker[c] = "running"
    /\ connected[c]
    /\ cmdq[c] # <<>>
    /\ cmdq' = [cmdq EXCEPT ![c] = Tail(@)]
    /\ LET cmd == Head(cmdq[c]) IN
       IF cmd.cmd = "Disconnect"
       THEN /\ connected' = [connected EXCEPT ![c] = FALSE]
            /\ c2r' = [c2r EXCEPT ![c] = Append(@, CloseFrame)]
            /\ r2c' = [r2c EXCEPT ![c] = <<>>]
       ELSE /\ c2r' = [c2r EXCEPT ![c] = @ \o command_frames(c, cmd)]
            /\ UNCHANGED <<connected, r2c>>
    /\ UNCHANGED <<treeVars, hot, worker, error_message, dropped, store, pool, index, mirror, serverUuid, backlog,
                   relayVars, last, ops>>

\* event_loop, disconnected branch: Connect opens a socket (the relay accepts
\* once the task of the previous session is gone), a change is tallied as
\* backlog, everything else is dropped
ClientCmdDisconnected(c) ==
    /\ worker[c] = "running"
    /\ ~connected[c]
    /\ cmdq[c] # <<>>
    /\ Head(cmdq[c]).cmd = "Connect" => conn[c] = "none"
    /\ cmdq' = [cmdq EXCEPT ![c] = Tail(@)]
    /\ LET cmd == Head(cmdq[c]) IN
       /\ connected' = [connected EXCEPT ![c] = (cmd.cmd = "Connect")]
       /\ conn' = [conn EXCEPT ![c] = IF cmd.cmd = "Connect" THEN "accepted" ELSE @]
       /\ backlog' = [backlog EXCEPT ![c] = IF cmd.cmd = "Change" THEN @ + 1 ELSE @]
       /\ dropped' = [dropped EXCEPT ![c] = IF cmd.cmd = "Change" THEN Append(@, cmd) ELSE @]
       /\ error_message' = [error_message EXCEPT ![c] = IF cmd.cmd = "Connect" THEN NoError ELSE @]
    /\ UNCHANGED <<treeVars, hot, worker, store, pool, index, mirror, serverUuid, c2r, r2c,
                   stateInfo, clientsTree, relayStore, removed, relayBorrows,
                   treeInfo, bcast, gks, last, ops>>

\* =================================================================
\* Public API calls (db.rs)
\* =================================================================
\* the key the applications contend for: the first key of the first range
ApiKeys == {GenericKey(0, 0)}

CanSend(c, cmds) == Len(cmdq[c]) + Len(cmds) <= MaxCmd
Outcome(op, c, key, res) == [op |-> op, node |-> c, key |-> key, res |-> res]

\* TypedTree::insert
Insert(c, value) ==
    /\ LET r == insert(pool[c], store[c], index[c], c, value) IN
       /\ CanSend(c, r.cmds)
       /\ pool' = [pool EXCEPT ![c] = r.pool]
       /\ store' = [store EXCEPT ![c] = r.store]
       /\ index' = [index EXCEPT ![c] = r.index]
       /\ cmdq' = [cmdq EXCEPT ![c] = @ \o r.cmds]
       /\ last' = Outcome("insert", c, r.key, r.res)
    /\ ops' = ops + 1
    /\ UNCHANGED <<treeVars, hot, worker, error_message, dropped, mirror, serverUuid, connected, backlog, c2r, r2c,
                   relayVars>>

\* TypedTree::update
Update(c, key, value) ==
    /\ LET r == update(mirror[c], store[c], index[c], c, key, value) IN
       /\ CanSend(c, r.cmds)
       /\ store' = [store EXCEPT ![c] = r.store]
       /\ index' = [index EXCEPT ![c] = r.index]
       /\ cmdq' = [cmdq EXCEPT ![c] = @ \o r.cmds]
       /\ last' = Outcome("update", c, key, r.res)
    /\ ops' = ops + 1
    /\ UNCHANGED <<treeVars, hot, worker, error_message, dropped, pool, mirror, serverUuid, connected, backlog, c2r,
                   r2c, relayVars>>

\* TypedTree::remove
Remove(c, key) ==
    /\ LET r == remove(mirror[c], store[c], index[c], c, key) IN
       /\ CanSend(c, r.cmds)
       /\ store' = [store EXCEPT ![c] = r.store]
       /\ index' = [index EXCEPT ![c] = r.index]
       /\ cmdq' = [cmdq EXCEPT ![c] = @ \o r.cmds]
       /\ last' = Outcome("remove", c, key, r.res)
    /\ ops' = ops + 1
    /\ UNCHANGED <<treeVars, hot, worker, error_message, dropped, pool, mirror, serverUuid, connected, backlog, c2r,
                   r2c, relayVars>>

\* check_out, release, connect, disconnect: one command to the worker
NoKey == <<>>
Command(c, cmd) ==
    /\ CanSend(c, <<cmd>>)
    /\ cmdq' = [cmdq EXCEPT ![c] = Append(@, cmd)]
    /\ last' = Outcome(cmd.cmd, c, cmd.key, "Ok")
    /\ ops' = ops + 1
    /\ UNCHANGED <<treeVars, hot, worker, error_message, dropped, store, pool, index, mirror, serverUuid, connected,
                   backlog, c2r, r2c, relayVars>>

check_out(c, key) == Command(c, [cmd |-> "CheckOut", key |-> key])
release(c, key) == Command(c, [cmd |-> "Release", key |-> key])
connect(c) == Command(c, [cmd |-> "Connect", key |-> NoKey])
disconnect(c) == Command(c, [cmd |-> "Disconnect", key |-> NoKey])

\* =================================================================
\* Wire input that does not come from the public API
\* =================================================================
\* Frames a registered peer can put on its socket.  The relay reads whatever
\* arrives; releasing a record is such a meta-only event (MetaChanged with
\* version Released), for which db.rs has no call.
CraftedEvents(c) ==
    {HotSyncEvent(k, "CreatedOrChanged", it, NewVersion(versioning), c, it,
                 to_bytes(2), NoAddr) :
        k \in ApiKeys, it \in {0, 2}}
    \cup {HotSyncEvent(k, "MetaChanged", it, "Released", c, 0, NoData, NoAddr) :
            k \in ApiKeys, it \in {0, 1}}
    \cup {RemovedEvent(k, NoAddr) : k \in ApiKeys}
    \cup {HotSyncEvent(GenericKey(1, 0), "CreatedOrChanged", 0,
                       NewVersion(versioning), c, 0, to_bytes(2), NoAddr)}

PeerSends(c, ev) ==
    /\ connected[c]
    /\ c2r' = [c2r EXCEPT ![c] = Append(@, ev)]
    /\ last' = Outcome("peer", c, ev.key, ev.kind)
    /\ ops' = ops + 1
    /\ UNCHANGED <<treeVars, hot, worker, error_message, dropped, store, pool, index, mirror, serverUuid, cmdq,
                   connected, backlog, r2c, relayVars>>

\* =================================================================
\* Specifications
\* =================================================================
\* ranges the relay issued first: [0, 1000) to A, [1000, 2000) to B
FirstRange(c) ==
    IF c = "A" THEN <<0, KEYS_PER_REQUEST>>
    ELSE <<KEYS_PER_REQUEST, 2 * KEYS_PER_REQUEST>>

\* the record A inserted first, as insert wrote it
FirstRecord == Record(GenericKey(0, 0), 0, NewVersion(versioning), "A", 0,
                      to_bytes(1))

\* A deployment in steady state: both clients are bound to the relay, hold
\* the first range issued to them and are connected; the handshakes ran to
\* the end and every queue is drained.  Keys reaches this state.
OnlineState ==
    /\ store = [c \in Clients |-> EmptyMap]
    /\ pool = [c \in Clients |-> <<FirstRange(c)>>]
    /\ index = [c \in Clients |-> EmptyMap]
    /\ mirror = [c \in Clients |-> EmptyMap]
    /\ relayStore = EmptyMap
    /\ relayBorrows = EmptyMap

\* The steady state after A inserted payload 1 under key (0, 0), the record
\* reached the relay and B, and the nodes of queue checked it out in that
\* order.  Boot reaches these states.
LiveState(queue) ==
    /\ store = [c \in Clients |-> Put(EmptyMap, GenericKey(0, 0), FirstRecord)]
    /\ pool = [c \in Clients |->
                 IF c = "A" THEN <<(<<1, KEYS_PER_REQUEST>>)>> ELSE <<FirstRange(c)>>]
    /\ index = [c \in Clients |-> Put(EmptyMap, 1, GenericKey(0, 0))]
    /\ relayBorrows = IF queue = <<>> THEN EmptyMap
                      ELSE Put(EmptyMap, GenericKey(0, 0), queue)
    /\ mirror = [c \in Clients |-> relayBorrows]
    /\ relayStore = Put(EmptyMap, GenericKey(0, 0), FirstRecord)

\* sessions up and registered, nothing in flight
Steady ==
    /\ serverUuid = [c \in Clients |-> RelayUuid]
    /\ cmdq = [c \in Clients |-> <<>>]
    /\ connected = [c \in Clients |-> TRUE]
    /\ backlog = [c \in Clients |-> 0]
    /\ error_message = [c \in Clients |-> NoError]
    /\ dropped = [c \in Clients |-> <<>>]
    /\ c2r = [c \in Clients |-> <<>>]
    /\ r2c = [c \in Clients |-> <<>>]
    /\ conn = [c \in Clients |-> "open"]
    /\ stateInfo = [c \in Clients |->
                      [registered |-> TRUE, key_ranges |-> <<FirstRange(c)>>]]
    /\ clientsTree = [c \in Clients |-> <<FirstRange(c)>>]
    /\ removed = {}
    /\ treeInfo = <<2 * KEYS_PER_REQUEST>>
    /\ bcast = [c \in Clients |-> <<>>]
    /\ gks = [c \in Clients |-> <<>>]
    /\ hot = [c \in Clients |-> <<>>]
    /\ worker = [c \in Clients |-> "running"]

InitOnline ==
    /\ versioning \in BOOLEAN
    /\ descriptors = [c \in Clients |-> <<FirstDescriptor(versioning)>>]
    /\ open_trees = [c \in Clients |-> <<RawTreeBundle(versioning)>>]
    /\ OnlineState
    /\ Steady
    /\ last = NoOutcome
    /\ ops = 0

\* the record is free, or A holds its check-out, or A holds it and B waits
InitLive ==
    /\ versioning \in BOOLEAN
    /\ descriptors = [c \in Clients |-> <<FirstDescriptor(versioning)>>]
    /\ open_trees = [c \in Clients |-> <<RawTreeBundle(versioning)>>]
    /\ \E queue \in {<<>>, <<"A">>, <<"A", "B">>} : LiveState(queue)
    /\ Steady
    /\ last = NoOutcome
    /\ ops = 0

\* relay tasks and client workers while the sessions stay up
Session(c) ==
    \/ RelayRecv(c)
    \/ RelayBroadcast(c)
    \/ ClientRecv(c)
    \/ ClientCmdConnected(c)

\* applications contending for the record under key (0, 0)
Contend(c) ==
    \/ \E key \in ApiKeys : check_out(c, key)
    \/ \E key \in ApiKeys : release(c, key)
    \/ \E key \in ApiKeys, value \in DataVals : Update(c, key, value)
    \/ \E key \in ApiKeys : Remove(c, key)

Next == \E c \in Clients : Session(c) \/ (ops < MaxOps /\ Contend(c))

\* two applications working on one live record through the public API
Spec == InitLive /\ [][Next]_vars

\* applications that write and delete the record
Write(c) ==
    \/ \E key \in ApiKeys, value \in DataVals : Update(c, key, value)
    \/ \E key \in ApiKeys : Remove(c, key)

\* the peer whose socket carries frames no API call of db.rs produced
Peer == "B"

NextWire ==
    \/ \E c \in Clients : Session(c) \/ (ops < MaxOps /\ Write(c))
    \/ ops < MaxOps /\ \E ev \in CraftedEvents(Peer) : PeerSends(Peer, ev)

\* the same deployment with one peer sending hot-sync frames of its own
Wire == InitLive /\ [][NextWire]_vars

\* relay tasks and client workers, with sessions opening and closing
Protocol(c) ==
    \/ Session(c)
    \/ RelayAccept(c)
    \/ ClientCmdDisconnected(c)

\* applications that open and close sessions and insert records
Dial(c) ==
    \/ connect(c)
    \/ disconnect(c)
    \/ \E value \in DataVals : Insert(c, value)

NextKeys ==
    \E c \in Clients :
        \/ Protocol(c)
        \/ RelayGetKeySetWrite(c)
        \/ ops < MaxSessions /\ Dial(c)

\* fresh databases connecting to a fresh relay, up to the first key ranges
Keys == InitFresh /\ [][NextKeys]_vars

\* applications creating and checking out the first record
Seed(c) ==
    \/ \E value \in DataVals : Insert(c, value)
    \/ \E key \in ApiKeys : check_out(c, key)

NextBoot == \E c \in Clients : Session(c) \/ (ops < MaxOps /\ Seed(c))

\* the steady deployment before the first record exists
Boot == InitOnline /\ [][NextBoot]_vars

\* versions a record of the tree can carry: Draft is Draft(0), DraftN is
\* Draft(n) with n > 0, Released is Released(_)
Versions == IF versioning THEN {"Draft", "DraftN", "Released"} ELSE {"NonVersioned"}

\* the first two revisions of the first id
RevKeys == {GenericKey(0, 0), GenericKey(0, 1)}

\* a revision as it is stored after it was synchronised: payload rev + 1,
\* meta_iteration 1 once its version was written by a meta change
Revision(key, ver) ==
    Record(key, IF ver \in {"Draft", "NonVersioned"} THEN 0 ELSE 1, ver, "A", 0,
           to_bytes(KeyRev(key) + 1))

\* the trees that hold some of RevKeys, each in one of the tree's versions
RevisionTrees ==
    UNION {[S -> Versions] : S \in SUBSET RevKeys}

\* steady deployment in which every node holds the revisions of vers and A
\* has checked all of them out
RevisionState(vers) ==
    LET tree == [k \in DOMAIN vers |-> Revision(k, vers[k])]
        names == {KeyRev(k) + 1 : k \in DOMAIN vers}
    IN  /\ store = [c \in Clients |-> tree]
        /\ relayStore = tree
        /\ index = [c \in Clients |->
                      [s \in names |-> GenericKey(0, s - 1)]]
        /\ pool = [c \in Clients |->
                     IF c = "A" THEN <<(<<1, KEYS_PER_REQUEST>>)>>
                     ELSE <<FirstRange(c)>>]
        /\ relayBorrows = [k \in RevKeys |-> <<"A">>]
        /\ mirror = [c \in Clients |-> relayBorrows]

InitRevise ==
    /\ versioning \in BOOLEAN
    /\ descriptors = [c \in Clients |-> <<FirstDescriptor(versioning)>>]
    /\ open_trees = [c \in Clients |-> <<RawTreeBundle(versioning)>>]
    /\ \E vers \in RevisionTrees : RevisionState(vers)
    /\ Steady
    /\ last = NoOutcome
    /\ ops = 0

\* the application at A rewriting the revisions it has checked out
Revising ==
    \E key \in RevKeys, value \in DataVals : Update("A", key, value)

NextRevise == (\E c \in Clients : Session(c)) \/ (ops < MaxOps /\ Revising)

\* one node updating revisions 0 and 1 of a record
Revise == InitRevise /\ [][NextRevise]_vars

\* key pools a database can hold: none, the one of key_pool.rs' unit test,
\* and others made of one or two short ranges
PoolInputs ==
    {<<>>, <<(<<0, 2>>), (<<10, 11>>)>>, <<(<<0, 1>>)>>, <<(<<3, 5>>)>>,
     <<(<<0, 2>>), (<<10, 12>>)>>}

\* payloads with four different names
PoolVals == 1..4

\* fresh databases, A's tree holding one of the key pools, nobody connected
InitPools ==
    /\ versioning \in BOOLEAN
    /\ descriptors = [c \in Clients |-> <<FirstDescriptor(versioning)>>]
    /\ open_trees = [c \in Clients |-> <<RawTreeBundle(versioning)>>]
    /\ store = [c \in Clients |-> EmptyMap]
    /\ \E ranges \in PoolInputs :
          pool = [c \in Clients |-> IF c = "A" THEN ranges ELSE <<>>]
    /\ index = [c \in Clients |-> EmptyMap]
    /\ mirror = [c \in Clients |-> EmptyMap]
    /\ serverUuid = [c \in Clients |-> Unbound]
    /\ cmdq = [c \in Clients |-> <<>>]
    /\ connected = [c \in Clients |-> FALSE]
    /\ backlog = [c \in Clients |-> 0]
    /\ error_message = [c \in Clients |-> NoError]
    /\ dropped = [c \in Clients |-> <<>>]
    /\ c2r = [c \in Clients |-> <<>>]
    /\ r2c = [c \in Clients |-> <<>>]
    /\ conn = [c \in Clients |-> "none"]
    /\ stateInfo = [c \in Clients |-> NoInfo]
    /\ clientsTree = EmptyMap
    /\ relayStore = EmptyMap
    /\ removed = {}
    /\ relayBorrows = EmptyMap
    /\ treeInfo = <<>>
    /\ bcast = [c \in Clients |-> <<>>]
    /\ gks = [c \in Clients |-> <<>>]
    /\ hot = [c \in Clients |-> <<>>]
    /\ worker = [c \in Clients |-> "running"]
    /\ last = NoOutcome
    /\ ops = 0

NextPools ==
    \/ ops < MaxInserts /\ \E value \in PoolVals : Insert("A", value)
    \/ ClientCmdDisconnected("A")

\* an offline application inserting until its key pool runs out
Pools == InitPools /\ [][NextPools]_vars

\* the uuid of a relay other than the one the clients dial
OtherUuid == "Q"

\* what a database's _server_uuid entry can hold when its client starts
Bindings == {Unbound, RelayUuid, OtherUuid}

\* client A's database was created now, or was linked to this relay or to
\* another one by an earlier handshake; B's was linked to this relay
InitRebind ==
    /\ versioning \in BOOLEAN
    /\ descriptors = [c \in Clients |-> <<FirstDescriptor(versioning)>>]
    /\ open_trees = [c \in Clients |-> <<RawTreeBundle(versioning)>>]
    /\ \E uuid \in Bindings :
          serverUuid = [c \in Clients |-> IF c = "A" THEN uuid ELSE RelayUuid]
    /\ FreshNodes

NextRebind ==
    \E c \in Clients :
        \/ Protocol(c)
        \/ RelayGetKeySetWrite(c)
        \/ ops < MaxOps /\ Dial(c)

\* databases with an earlier binding dialling the relay
Rebind == InitRebind /\ [][NextRebind]_vars

\* the roaming client's application: it opens and closes the session and,
\* while its worker holds no socket, inserts, rewrites and deletes records
Roam(c) ==
    \/ connect(c)
    \/ disconnect(c)
    \/ ~connected[c] /\ Write(c)
    \/ ~connected[c] /\ \E value \in DataVals : Insert(c, value)

NextOffline ==
    \/ \E c \in Clients : Protocol(c)
    \/ ops < MaxOps /\ Roam("A")
    \/ ops < MaxOps /\ \E c \in Clients \ {"A"}, value \in DataVals : Insert(c, value)

\* one client working on the live record and on new ones while disconnected
Offline == InitLive /\ [][NextOffline]_vars

\* ------------------------------------------------- opening a user tree
\* open_cold_tree on the stored descriptor descs (<<>> when the tree is new)
\* for a root type with the given versioning(), evolution() and reflection.
\* The evolution a newer code brings is inserted into a deserialized copy of
\* the descriptor that is dropped: the stored descriptor is written only
\* when the tree is created.
VersioningDiffers_never(flag, descriptor) == FALSE
VersioningDiffers(flag, descriptor) == flag # descriptor.versioning

Rejected(res, descs, bundles) ==
    [res |-> res, descriptors |-> descs, open_trees |-> bundles, cmds |-> <<>>]
Bundled(descs, root, cmds) ==
    [res |-> "Ok", descriptors |-> descs,
     open_trees |-> <<RawTreeBundle(root.versioning)>>, cmds |-> cmds]

open_cold_tree(descs, bundles, root) ==
    IF descs # <<>>
    THEN LET descriptor == descs[1]
             order == cmp(root.evolution, max_evolution(descriptor))
         IN  IF VersioningDiffers(root.versioning, descriptor)
             THEN Rejected("VersioningMismatch", descs, bundles)
             ELSE IF /\ order = "Equal"
                     /\ Has(descriptor.evolutions, root.evolution)
                     /\ root.tc # descriptor.evolutions[root.evolution]
             THEN Rejected("EvolutionMismatch", descs, bundles)
             ELSE Bundled(descs, root, <<>>)
    ELSE Bundled(<<TreeDescriptor(Put(EmptyMap, root.evolution, root.tc),
                                  root.versioning)>>,
                 root, <<[cmd |-> "TreeCreated", key |-> NoKey]>>)

\* TypedTree { versioning, .. }: the handle open_tree returns
TypedTree(flag) == [versioning |-> flag]

\* HillsClient::open_tree: a tree already in open_trees is handed out with
\* the bundle's flag, any other goes through open_cold_tree
open_tree(descs, bundles, root) ==
    IF bundles # <<>>
    THEN [res |-> "Ok", descriptors |-> descs, open_trees |-> bundles,
          cmds |-> <<>>, handle |-> <<TypedTree(bundles[1].versioning)>>]
    ELSE LET r == open_cold_tree(descs, bundles, root) IN
         [res |-> r.res, descriptors |-> r.descriptors, open_trees |-> r.open_trees,
          cmds |-> r.cmds,
          handle |-> IF r.res = "Ok" THEN <<TypedTree(root.versioning)>> ELSE <<>>]

OpenOutcome(c, root, cold, r) ==
    [op |-> "open_tree", node |-> c, key |-> NoKey, res |-> r.res, root |-> root,
     cold |-> cold, handle |-> r.handle]

OpenTree(c, root) ==
    /\ LET r == open_tree(descriptors[c], open_trees[c], root) IN
       /\ CanSend(c, r.cmds)
       /\ descriptors' = [descriptors EXCEPT ![c] = r.descriptors]
       /\ open_trees' = [open_trees EXCEPT ![c] = r.open_trees]
       /\ cmdq' = [cmdq EXCEPT ![c] = @ \o r.cmds]
       /\ last' = OpenOutcome(c, root, open_trees[c] = <<>>, r)
    /\ ops' = ops + 1
    /\ UNCHANGED <<versioning, hot, worker, error_message, dropped, store, pool, index, mirror,
                   serverUuid, connected, backlog, c2r, r2c, relayVars>>

\* the process of an offline client ends and HillsClient::open runs again:
\* what lives in memory starts empty, what sled holds stays
Restart(c) ==
    /\ ~connected[c]
    /\ open_trees[c] # <<>>
    /\ open_trees' = [open_trees EXCEPT ![c] = <<>>]
    /\ mirror' = [mirror EXCEPT ![c] = EmptyMap]
    /\ cmdq' = [cmdq EXCEPT ![c] = <<>>]
    /\ backlog' = [backlog EXCEPT ![c] = 0]
    /\ error_message' = [error_message EXCEPT ![c] = NoError]
    /\ UNCHANGED <<versioning, hot, worker, descriptors, dropped, store, pool, index, serverUuid,
                   connected, c2r, r2c, relayVars, last, ops>>

\* evolutions and reflections of the root types an application is built with
Evolutions == {SimpleVersion(0, 1), SimpleVersion(0, 2), SimpleVersion(1, 0)}
Collections ==
    {FirstCollection,
     TypeCollection("V", Struct(<<StructField("y", "u8")>>)),
     TypeCollection("V", Struct(<<StructField("x", "u8"), StructField("z", "u16")>>)),
     TypeCollection("V", Struct(<<StructField("x", "u16")>>)),
     TypeCollection("V", Enum(<<EnumVariant("A", Unit)>>)),
     TypeCollection("V", Enum(<<EnumVariant("A", Unit), EnumVariant("B", Unit)>>)),
     TypeCollection("V", Enum(<<EnumVariant("A", Unnamed(<<"u8">>))>>)),
     TypeCollection("V", Enum(<<EnumVariant("A", Named(<<StructField("x", "u8")>>))>>)),
     TypeCollection("W", Struct(<<StructField("x", "u8")>>))}
RootTypes == [versioning : BOOLEAN, evolution : Evolutions, tc : Collections]

\* a database in which the tree was never opened
InitTrees ==
    /\ versioning = FALSE
    /\ descriptors = [c \in Clients |-> <<>>]
    /\ open_trees = [c \in Clients |-> <<>>]
    /\ serverUuid = [c \in Clients |-> Unbound]
    /\ FreshNodes

NextTrees ==
    \/ ops < MaxOpens /\ \E root \in RootTypes : OpenTree("A", root)
    \/ Restart("A")
    \/ ClientCmdDisconnected("A")

\* an offline database whose tree is opened by builds of the application
Trees == InitTrees /\ [][NextTrees]_vars

\* ------------------------------------------- comparing type collections
\* sequences of at most MaxFields elements of S
SeqsUpTo(S) == UNION {[1..n -> S] : n \in 0..MaxFields}

\* reflections of small root types: structs of u8/u16 fields named x or y,
\* enums of unit, tuple and struct variants named A or B
StructFields == {StructField(i, t) : i \in {"x", "y"}, t \in {"u8", "u16"}}
VariantFields ==
    {Unit} \cup {Unnamed(<<t>>) : t \in {"u8", "u16"}}
           \cup {Named(<<f>>) : f \in StructFields}
TypeInfos ==
    {Struct(fs) : fs \in SeqsUpTo(StructFields)}
    \cup {Enum(vs) : vs \in SeqsUpTo({EnumVariant(i, f) : i \in {"A", "B"},
                                                        f \in VariantFields})}

\* a nested type the root refers to through a field of type "Inner"
InnerInfos ==
    {Struct(<<StructField("a", "u8")>>), Struct(<<StructField("a", "u16")>>),
     Struct(<<>>), Enum(<<EnumVariant("A", Unit)>>),
     Enum(<<EnumVariant("A", Unit), EnumVariant("B", Unit)>>)}
Nested(inner) ==
    [root |-> "V",
     refs |-> Put(Put(EmptyMap, "V", Struct(<<StructField("x", "Inner")>>)),
                  "Inner", inner)]

\* the pairs of collections handed to is_backwards_compatible
ComparedPairs ==
    ({TypeCollection("V", t) : t \in TypeInfos}
        \X {TypeCollection(r, t) : r \in {"V", "W"}, t \in TypeInfos})
    \cup ({Nested(t) : t \in InnerInfos} \X {Nested(t) : t \in InnerInfos})

\* nothing was opened or sent; the next comparison is chosen
InitCompat ==
    /\ versioning = FALSE
    /\ descriptors = [c \in Clients |-> <<>>]
    /\ open_trees = [c \in Clients |-> <<>>]
    /\ serverUuid = [c \in Clients |-> Unbound]
    /\ store = [c \in Clients |-> EmptyMap]
    /\ pool = [c \in Clients |-> <<>>]
    /\ index = [c \in Clients |-> EmptyMap]
    /\ mirror = [c \in Clients |-> EmptyMap]
    /\ cmdq = [c \in Clients |-> <<>>]
    /\ connected = [c \in Clients |-> FALSE]
    /\ backlog = [c \in Clients |-> 0]
    /\ error_message = [c \in Clients |-> NoError]
    /\ dropped = [c \in Clients |-> <<>>]
    /\ c2r = [c \in Clients |-> <<>>]
    /\ r2c = [c \in Clients |-> <<>>]
    /\ conn = [c \in Clients |-> "none"]
    /\ stateInfo = [c \in Clients |-> NoInfo]
    /\ clientsTree = EmptyMap
    /\ relayStore = EmptyMap
    /\ removed = {}
    /\ relayBorrows = EmptyMap
    /\ treeInfo = <<>>
    /\ bcast = [c \in Clients |-> <<>>]
    /\ gks = [c \in Clients |-> <<>>]
    /\ hot = [c \in Clients |-> <<>>]
    /\ worker = [c \in Clients |-> "running"]
    /\ \E pair \in ComparedPairs :
          last = [op |-> "reflect", previous |-> pair[1], next |-> pair[2]]
    /\ ops = 0

\* one call of is_backwards_compatible on the chosen pair
Compare ==
    /\ last.op = "reflect"
    /\ last' = [op |-> "is_backwards_compatible", previous |-> last.previous,
                next |-> last.next,
                res |-> is_backwards_compatible(last.previous, last.next)]
    /\ ops' = ops + 1
    /\ UNCHANGED <<treeVars, hot, worker, clientVars, error_message, dropped, c2r, r2c, relayVars>>

\* the compatibility check applied to reflected type collections
Compat == InitCompat /\ [][Compare]_vars

\* hot-sync frames of a peer that rewrote the live record several times:
\* meta and data iterations advance separately; the last frame changes the
\* meta of a record nobody holds
InboundEvents(c) ==
    {HotSyncEvent(k, "CreatedOrChanged", mi, NewVersion(versioning), c, di,
                 to_bytes(2), NoAddr) :
        k \in ApiKeys, mi \in 1..MaxIter, di \in 0..MaxIter}
    \cup {HotSyncEvent(k, "MetaChanged", mi, "Released", c, 0, NoData, NoAddr) :
            k \in ApiKeys, mi \in 1..MaxIter}
    \cup {RemovedEvent(k, NoAddr) : k \in ApiKeys}
    \cup {HotSyncEvent(GenericKey(1, 0), "MetaChanged", 1, "Released", c, 0,
                       NoData, NoAddr)}

\* the applications make no call: only sockets and broadcasts are served
NextApply ==
    \/ \E c \in Clients : RelayRecv(c) \/ RelayBroadcast(c) \/ ClientRecv(c)
    \/ ops < MaxOps /\ \E ev \in InboundEvents(Peer) : PeerSends(Peer, ev)

\* the live record under a stream of changes, meta changes and removals
Apply == InitLive /\ [][NextApply]_vars

\* -----------------------------------------------------------------
\* Check-out queues on the relay (process_message, CheckOut | Return arm)
\* -----------------------------------------------------------------
\* the key lists a CheckOut or Return frame carries: the live record's key,
\* alone or with a key nobody has a queue for yet
QueueKeys == {GenericKey(0, 0), GenericKey(1, 0)}
KeyLists == {<<GenericKey(0, 0)>>, <<GenericKey(0, 0), GenericKey(1, 0)>>}

\* CheckOut and Return frames a worker puts on its socket
QueueFrames ==
    {CheckOutEv(keys) : keys \in KeyLists} \cup {ReturnEv(keys) : keys \in KeyLists}

\* a worker writes one CheckOut or Return frame to its socket
PeerQueues(c, msg) ==
    /\ connected[c]
    /\ c2r' = [c2r EXCEPT ![c] = Append(@, msg)]
    /\ ops' = ops + 1
    /\ UNCHANGED <<treeVars, hot, worker, error_message, dropped, store, pool, index, mirror, serverUuid, cmdq,
                   connected, backlog, r2c, relayVars, last>>

\* both clients queue for and return records, and the peer deletes the live
\* one
NextBorrow ==
    \/ \E c \in Clients : RelayRecv(c) \/ RelayBroadcast(c) \/ ClientRecv(c)
    \/ ops < MaxOps /\ \E c \in Clients, msg \in QueueFrames : PeerQueues(c, msg)
    \/ ops < MaxOps /\ PeerSends(Peer, RemovedEvent(GenericKey(0, 0), NoAddr))

Borrow == InitLive /\ [][NextBorrow]_vars

\* -----------------------------------------------------------------
\* A client whose socket fails (sync_client.rs event_loop)
\* -----------------------------------------------------------------
\* connected branch, socket arm: try_next yields a Close frame, the end of
\* the stream or an error; should_disconnect closes the socket and clears
\* the telemetry flag, the loop goes on
ClientRecvFails(c) ==
    /\ worker[c] = "running"
    /\ connected[c]
    /\ connected' = [connected EXCEPT ![c] = FALSE]
    /\ r2c' = [r2c EXCEPT ![c] = <<>>]
    /\ c2r' = [c2r EXCEPT ![c] = Append(@, CloseFrame)]
    /\ UNCHANGED <<treeVars, hot, worker, error_message, dropped, store, pool, index, mirror,
                   serverUuid, cmdq, backlog, relayVars, last, ops>>

\* connected branch, change and TreeCreated arms: the write to the socket
\* fails, send_hot_change or request_keys returns Error::Ws and
\* handle_result! returns from event_loop; the socket and both receivers are
\* dropped with the task, the telemetry flag is not written
ClientSendFails(c) ==
    /\ worker[c] = "running"
    /\ connected[c]
    /\ cmdq[c] # <<>>
    /\ Head(cmdq[c]).cmd \in {"Change", "TreeCreated"}
    /\ worker' = [worker EXCEPT ![c] = "exited"]
    /\ cmdq' = [cmdq EXCEPT ![c] = Tail(@)]
    /\ r2c' = [r2c EXCEPT ![c] = <<>>]
    /\ c2r' = [c2r EXCEPT ![c] = Append(@, CloseFrame)]
    /\ UNCHANGED <<treeVars, hot, error_message, dropped, store, pool, index, mirror,
                   serverUuid, connected, backlog, relayVars, last, ops>>

\* A's application writes the live record and dials again
NextLink ==
    \/ \E c \in Clients : Protocol(c)
    \/ ops < MaxOps /\ (connect("A") \/ Write("A"))
    \/ ClientRecvFails("A")
    \/ ClientSendFails("A")

\* the live deployment with A's socket failing while it receives or sends
Link == InitLive /\ [][NextLink]_vars

\* A goes offline and dials again while the peer deletes the live record and
\* a record A never held
NextCatchup ==
    \/ \E c \in Clients : Protocol(c)
    \/ ops < MaxOps /\ (connect("A") \/ disconnect("A"))
    \/ ops < MaxOps /\ \E key \in QueueKeys : PeerSends(Peer, RemovedEvent(key, NoAddr))

\* the live deployment with a client that misses a deletion
Catchup == InitLive /\ [][NextCatchup]_vars

\* -----------------------------------------------------------------
\* The HotSyncEvent arm of process_message as two connection tasks run it
\* -----------------------------------------------------------------
\* first half, up to the call of handle_incoming_record: registration,
\* ownership and tombstone checks; a Removed event inserts the tombstone and
\* evicts the check-out queue
RelayHotBegin(c) ==
    /\ conn[c] = "open"
    /\ gks[c] = <<>>
    /\ hot[c] = <<>>
    /\ c2r[c] # <<>>
    /\ Head(c2r[c]).type = "HotSyncEvent"
    /\ LET msg == Head(c2r[c])
           d == RelayHotDecision(stateInfo[c], msg, removed)
       IN /\ c2r' = [c2r EXCEPT ![c] = Tail(@)]
          /\ IF d # "apply"
             THEN /\ last' = RelayHotOutcome(c, msg, d)
                  /\ UNCHANGED <<removed, relayBorrows, hot>>
             ELSE /\ removed' = IF msg.kind = "Removed"
                                THEN removed \cup {msg.key} ELSE removed
                  /\ relayBorrows' = IF msg.kind = "Removed"
                                     THEN Del(relayBorrows, msg.key)
                                     ELSE relayBorrows
                  /\ hot' = [hot EXCEPT ![c] = <<msg>>]
                  /\ UNCHANGED last
    /\ UNCHANGED <<treeVars, worker, error_message, dropped, clientVars, r2c, conn, stateInfo,
                   clientsTree, relayStore, treeInfo, bcast, gks, ops>>

\* second half: handle_incoming_record on the relay's tree, then the
\* broadcast of the event
RelayHotEnd(c) ==
    /\ conn[c] = "open"
    /\ hot[c] # <<>>
    /\ LET msg == hot[c][1] IN
       /\ relayStore' = handle_incoming_record(relayStore, EmptyMap, msg, FALSE).store
       /\ bcast' = Publish(<<BSync([msg EXCEPT !.source_addr = c])>>)
       /\ last' = RelayHotOutcome(c, msg, "apply")
    /\ hot' = [hot EXCEPT ![c] = <<>>]
    /\ UNCHANGED <<treeVars, worker, error_message, dropped, clientVars, c2r, r2c, conn, stateInfo,
                   clientsTree, removed, relayBorrows, treeInfo, gks, ops>>

\* a deletion of the live record and a rewrite of it with newer iterations
RaceEvents(c) ==
    {RemovedEvent(GenericKey(0, 0), NoAddr),
     HotSyncEvent(GenericKey(0, 0), "CreatedOrChanged", 2, NewVersion(versioning),
                  c, 2, to_bytes(2), NoAddr)}

NextRace ==
    \/ \E c \in Clients : RelayHotBegin(c) \/ RelayHotEnd(c)
    \/ \E c \in Clients : RelayBroadcast(c) \/ ClientRecv(c)
    \/ ops < MaxOps /\ \E c \in Clients : \E ev \in RaceEvents(c) : PeerSends(c, ev)

\* two connections writing and deleting the live record at the same time
Race == InitLive /\ [][NextRace]_vars

\* clients queue for and return the live record, the peer deletes it, and
\* A closes its session, loses it, and dials again
NextLeave ==
    \/ \E c \in Clients : Protocol(c)
    \/ ops < MaxOps /\ \E c \in Clients :
           PeerQueues(c, CheckOutEv(<<GenericKey(0, 0)>>))
           \/ PeerQueues(c, ReturnEv(<<GenericKey(0, 0)>>))
    \/ ops < MaxOps /\ PeerSends(Peer, RemovedEvent(GenericKey(0, 0), NoAddr))
    \/ ops < MaxOps /\ (connect("A") \/ disconnect("A"))
    \/ ClientRecvFails("A")

\* the live deployment with check-out traffic and a client that leaves
Leave == InitLive /\ [][NextLeave]_vars

\* -----------------------------------------------------------------
\* Waiting for a check-out
\* -----------------------------------------------------------------
\* check_out calls made while the record's holders come and go
MaxAsks == 1

\* nothing of c's application is on its way to the relay
Idle(c) == cmdq[c] = <<>> /\ c2r[c] = <<>>

\* an application asks for the live record unless its mirror shows it
\* queued already
Asks(c) ==
    /\ Idle(c)
    /\ ~is_checked_out_waiting(mirror[c], c, GenericKey(0, 0))
    /\ check_out(c, GenericKey(0, 0))

\* the application that sees itself at the head gives the record back
\* (TypedTree::release; these calls are not counted in ops)
HolderReturns(c) ==
    /\ Idle(c)
    /\ is_checked_out(mirror[c], c, GenericKey(0, 0))
    /\ cmdq' = [cmdq EXCEPT ![c] = <<[cmd |-> "Release", key |-> GenericKey(0, 0)]>>]
    /\ last' = Outcome("Release", c, GenericKey(0, 0), "Ok")
    /\ UNCHANGED <<treeVars, hot, worker, error_message, dropped, store, pool, index, mirror,
                   serverUuid, connected, backlog, c2r, r2c, relayVars, ops>>

NextQueueing ==
    \/ \E c \in Clients : Session(c)
    \/ ops < MaxAsks /\ \E c \in Clients : Asks(c)
    \/ \E c \in Clients : HolderReturns(c)

\* every worker and connection task keeps being scheduled, and a holder
\* does give the record back
Queueing ==
    /\ InitLive
    /\ [][NextQueueing]_vars
    /\ \A c \in Clients :
          /\ WF_vars(RelayRecv(c))
          /\ WF_vars(RelayBroadcast(c))
          /\ WF_vars(ClientRecv(c))
          /\ WF_vars(ClientCmdConnected(c))
          /\ WF_vars(HolderReturns(c))

\* creates the peer sends for a key of A's range and for a key of no range,
\* with the meta_iteration of a first write and of a later one
ForgedEvents(c) ==
    {HotSyncEvent(GenericKey(id, 0), "CreatedOrChanged", mi, NewVersion(versioning),
                  c, 0, to_bytes(2), NoAddr) :
        id \in {1, 3 * KEYS_PER_REQUEST}, mi \in {0, 1}}

NextForge ==
    \/ \E c \in Clients : RelayRecv(c) \/ RelayBroadcast(c) \/ ClientRecv(c)
    \/ ops < MaxOps /\ \E ev \in ForgedEvents(Peer) : PeerSends(Peer, ev)

\* the live deployment with a peer creating records under keys it was not
\* issued
Forge == InitLive /\ [][NextForge]_vars

\* -----------------------------------------------------------------
\* A tree opened for the first time while the session is up
\* -----------------------------------------------------------------
\* both clients are bound, connected and registered and have no tree yet;
\* the relay has not seen the tree, or holds its <tree>_info entry from an
\* earlier overview
InitSprout ==
    /\ versioning = FALSE
    /\ descriptors = [c \in Clients |-> <<>>]
    /\ open_trees = [c \in Clients |-> <<>>]
    /\ store = [c \in Clients |-> EmptyMap]
    /\ pool = [c \in Clients |-> <<>>]
    /\ index = [c \in Clients |-> EmptyMap]
    /\ mirror = [c \in Clients |-> EmptyMap]
    /\ serverUuid = [c \in Clients |-> RelayUuid]
    /\ cmdq = [c \in Clients |-> <<>>]
    /\ connected = [c \in Clients |-> TRUE]
    /\ backlog = [c \in Clients |-> 0]
    /\ error_message = [c \in Clients |-> NoError]
    /\ dropped = [c \in Clients |-> <<>>]
    /\ c2r = [c \in Clients |-> <<>>]
    /\ r2c = [c \in Clients |-> <<>>]
    /\ conn = [c \in Clients |-> "open"]
    /\ stateInfo = [c \in Clients |-> [registered |-> TRUE, key_ranges |-> <<>>]]
    /\ clientsTree = [c \in Clients |-> <<>>]
    /\ relayStore = EmptyMap
    /\ removed = {}
    /\ relayBorrows = EmptyMap
    /\ treeInfo \in {<<>>, <<0>>}
    /\ bcast = [c \in Clients |-> <<>>]
    /\ gks = [c \in Clients |-> <<>>]
    /\ hot = [c \in Clients |-> <<>>]
    /\ worker = [c \in Clients |-> "running"]
    /\ last = NoOutcome
    /\ ops = 0

NextSprout ==
    \/ ops < MaxOpens /\ \E c \in Clients, root \in RootTypes : OpenTree(c, root)
    \/ \E c \in Clients : ClientCmdConnected(c) \/ ClientRecv(c)
    \/ \E c \in Clients : RelayRecv(c) \/ RelayGetKeySetWrite(c)

\* connected applications opening the tree for the first time
Sprout == InitSprout /\ [][NextSprout]_vars

\* -----------------------------------------------------------------
\* Two applications naming records alike
\* -----------------------------------------------------------------
\* A rewrites and deletes the live record while B inserts records under ids
\* of its own range
NextTwins ==
    \/ \E c \in Clients : Session(c)
    \/ ops < MaxOps /\ Write("A")
    \/ ops < MaxOps /\ \E value \in DataVals : Insert(Peer, value)

\* the live record and a second application creating records next to it
Twins == InitLive /\ [][NextTwins]_vars

\* =================================================================
\* Properties
\* =================================================================
\* the step is the API call op(key) made at node c
ApiCall(op, c, key) ==
    /\ ops' = ops + 1
    /\ last'.op = op
    /\ last'.node = c
    /\ last'.key = key

\* the step is an update or remove of key that succeeded at node c
Mutated(c, key) ==
    /\ ApiCall("update", c, key) \/ ApiCall("remove", c, key)
    /\ last'.res = "Ok"

\* c is the first uuid of the queue the table holds for key
HeadOf(table, c, key) ==
    /\ key \in DOMAIN table
    /\ table[key] # <<>>
    /\ Head(table[key]) = c

C2_NotCheckedOutRejected ==
    [][\A c \in Clients, key \in ApiKeys :
          /\ ApiCall("update", c, key) \/ ApiCall("remove", c, key)
          /\ ~HeadOf(mirror[c], c, key)
          => /\ last'.res = "Usage:not checked out"
             /\ store' = store
             /\ index' = index
             /\ cmdq' = cmdq]_vars

\* a write call was rejected for a stored record whose queue another node heads
C2_Witness ==
    /\ last.op \in {"update", "remove"}
    /\ last.res = "Usage:not checked out"
    /\ last.key \in DOMAIN store[last.node]
    /\ last.key \in DOMAIN mirror[last.node]
    /\ mirror[last.node][last.key] # <<>>

\* no pending command, no frame or broadcast in flight, both sessions up
Quiescent ==
    \A c \in Clients :
        /\ connected[c] /\ conn[c] = "open" /\ stateInfo[c].registered
        /\ cmdq[c] = <<>> /\ c2r[c] = <<>> /\ r2c[c] = <<>>
        /\ bcast[c] = <<>> /\ gks[c] = <<>>

\* both clients hold the same record, or the key is tombstoned and one of
\* them holds nothing
Converged(key) ==
    \/ /\ key \in DOMAIN store["A"]
       /\ key \in DOMAIN store["B"]
       /\ store["A"][key] = store["B"][key]
    \/ /\ key \in removed
       /\ key \notin DOMAIN store["A"] \/ key \notin DOMAIN store["B"]

RelayTakes(c, msg) ==
    /\ conn[c] = "open"
    /\ c2r[c] # <<>>
    /\ Head(c2r[c]) = msg
    /\ c2r'[c] = Tail(c2r[c])
    /\ conn'[c] = "open"

\* hot-sync frames that create or change a record
IsChange(msg) ==
    /\ msg.type = "HotSyncEvent"
    /\ msg.kind \in {"CreatedOrChanged", "MetaChanged"}

\* frames in flight to the relay
InFlight(c) == {c2r[c][i] : i \in 1..Len(c2r[c])}

IssuedNone(uuid, key) ==
    \/ uuid \notin DOMAIN clientsTree
    \/ \A i \in 1..Len(clientsTree[uuid]) :
          key[1] < clientsTree[uuid][i][1] \/ key[1] >= clientsTree[uuid][i][2]

\* C5: a CreatedOrChanged or MetaChanged event with meta_iteration 0 from a
\* client that was issued no range containing the key's id is dropped: the
\* relay's store and tombstones stay as they are and nothing is broadcast.
C5_NonOwnerCreateDropped ==
    [][\A c \in Clients : \A msg \in InFlight(c) :
          /\ RelayTakes(c, msg)
          /\ IsChange(msg)
          /\ msg.meta_iteration = 0
          /\ IssuedNone(c, msg.key)
          => /\ relayStore' = relayStore
             /\ removed' = removed
             /\ bcast' = bcast]_vars

\* the relay turned down the create of a key that it holds no record of
C5_Witness ==
    /\ last.op = "relay_hot"
    /\ last.res = "not owner"
    /\ last.kind = "CreatedOrChanged"
    /\ last.key \notin DOMAIN relayStore
    /\ last.key \notin removed
    /\ IssuedNone(last.node, last.key)

\* C7: the relay applies a hot-sync event that modifies an existing record
\* only if the sender is the head of the key's check-out queue.
C7_RelayEnforcesCheckOut ==
    [][\A c \in Clients : \A msg \in InFlight(c) :
          /\ RelayTakes(c, msg)
          /\ msg.type = "HotSyncEvent"
          /\ msg.key \in DOMAIN relayStore
          /\ relayStore' # relayStore
          => HeadOf(relayBorrows, c, msg.key)]_vars

\* the step is connection task c taking event off its broadcast receiver
BroadcastTaken(c, event) ==
    /\ conn[c] = "open"
    /\ bcast[c] # <<>>
    /\ Head(bcast[c]) = event
    /\ bcast'[c] = Tail(bcast[c])
    /\ conn'[c] = "open"

\* C8: a connection task sends a broadcast hot-sync event on its socket
\* exactly when the event's source_addr is not the connection's address.
C8_NotForwardedToSource ==
    [][\A c \in Clients : \A i \in 1..Len(bcast[c]) :
          BroadcastTaken(c, bcast[c][i]) /\ bcast[c][i].type = "Sync"
          => IF bcast[c][i].event.source_addr = c
             THEN r2c'[c] = r2c[c]
             ELSE r2c'[c] = Append(r2c[c], bcast[c][i].event)]_vars

\* a peer was sent an event while the task of the connection the event came
\* from took it off its receiver and sent nothing
C8_Witness ==
    \E c \in Clients, d \in Clients :
        /\ c # d
        /\ bcast[c] = <<>> /\ r2c[c] = <<>> /\ bcast[d] = <<>>
        /\ \E i \in 1..Len(r2c[d]) :
              r2c[d][i].type = "HotSyncEvent" /\ r2c[d][i].source_addr = c

\* iterations of the record under key do not go down from tree to tree2
NotDecreased(tree, tree2, key) ==
    /\ tree2[key].meta_iteration >= tree[key].meta_iteration
    /\ tree2[key].data_iteration >= tree[key].data_iteration

ReleasedKept(tree, tree2, key) ==
    tree[key].version = "Released"
    => key \in DOMAIN tree2 /\ tree2[key].data = tree[key].data

\* C10: at every node a record whose version is Released keeps its data and
\* is never deleted, by local calls or by inbound events.
C10_ReleasedImmutable ==
    [][/\ \A c \in Clients : \A key \in DOMAIN store[c] :
             ReleasedKept(store[c], store'[c], key)
       /\ \A key \in DOMAIN relayStore :
             ReleasedKept(relayStore, relayStore', key)]_vars

\* every range the relay has issued, with the client and position it has
Issued == {<<c, i>> : c \in DOMAIN clientsTree, i \in 1..3} \cap
          {x \in (DOMAIN clientsTree) \X (1..3) : x[2] <= Len(clientsTree[x[1]])}
RangeOf(x) == clientsTree[x[1]][x[2]]

\* C6: every range issued in reply to GetKeySet is [n, n + 1000) below the
\* tree's next-id, and any two issued ranges are disjoint, also when the
\* requests are handled concurrently on different connections.
C6_IssuedRangesDisjoint ==
    \A x \in Issued :
        /\ RangeOf(x)[2] = RangeOf(x)[1] + KEYS_PER_REQUEST
        /\ treeInfo # <<>> /\ RangeOf(x)[2] <= treeInfo[1]
        /\ \A y \in Issued \ {x} :
              RangeOf(x)[2] <= RangeOf(y)[1] \/ RangeOf(y)[2] <= RangeOf(x)[1]

\* the previous revision of key is stored at c and is Released
PreviousReleased(c, key) ==
    /\ previous_revision(key) \in DOMAIN store[c]
    /\ store[c][previous_revision(key)].version = "Released"

get(tree, key) ==
    IF Has(tree, key)
    THEN [res |-> "Ok", value |-> from_bytes(tree[key].data)]
    ELSE [res |-> "RecordNotFound"]

\* TypedTree::meta: (meta_iteration, RecordMeta, data_iteration), or None
meta(tree, key) ==
    IF Has(tree, key)
    THEN [res |-> "Some", meta_iteration |-> tree[key].meta_iteration,
          key |-> tree[key].key, version |-> tree[key].version,
          data_iteration |-> tree[key].data_iteration]
    ELSE [res |-> "None"]

RECURSIVE PoolIds(_)
PoolIds(ranges) ==
    IF ranges = <<>> THEN <<>>
    ELSE [i \in 1..(ranges[1][2] - ranges[1][1]) |-> ranges[1][1] + i - 1]
            \o PoolIds(Tail(ranges))

\* C13: every insert takes the first id of the key pool in pool order, the
\* key has revision 0 and was not returned before, and the id leaves the
\* pool; on an empty or absent pool insert fails with OutOfKeys and stores
\* nothing.
C13_KeysInPoolOrder ==
    [][\A c \in Clients, value \in PoolVals :
          Insert(c, value)
          => IF PoolIds(pool[c]) = <<>>
             THEN /\ last'.res = "OutOfKeys"
                  /\ store' = store
                  /\ pool' = pool
             ELSE /\ last'.key = GenericKey(Head(PoolIds(pool[c])), 0)
                  /\ PoolIds(pool'[c]) = Tail(PoolIds(pool[c]))
                  /\ last'.key \notin DOMAIN store[c]
                  /\ last'.res = "Ok" => last'.key \in DOMAIN store'[c]]_vars

\* the pool ran out after inserts had used up its first range and gone on
\* to the second
C13_Witness ==
    /\ last.op = "insert"
    /\ last.res = "OutOfKeys"
    /\ pool[last.node] = <<>>
    /\ \E k \in DOMAIN store[last.node] : KeyId(k) >= 10
    /\ \E k \in DOMAIN store[last.node] : KeyId(k) < 10

\* C14: an insert or update that a registered indexer rejects leaves the
\* record store, the key pool and the index as they were and sends no change
\* to the sync worker.
C14_IndexRejectionClean ==
    [][\A c \in Clients :
          /\ ops' = ops + 1
          /\ last'.op \in {"insert", "update"}
          /\ last'.node = c
          /\ last'.res = "Index"
          => /\ store' = store
             /\ pool' = pool
             /\ index' = index
             /\ cmdq' = cmdq]_vars

\* C15: at every client the index maps name s to key k exactly when the tree
\* holds a record under k whose extracted name is s.
C15_IndexMatchesTree ==
    \A c \in Clients :
        /\ \A s \in DOMAIN index[c] :
              /\ index[c][s] \in DOMAIN store[c]
              /\ Extract(store[c][index[c][s]].data) = s
        /\ \A k \in DOMAIN store[c] :
              /\ Extract(store[c][k].data) \in DOMAIN index[c]
              /\ index[c][Extract(store[c][k].data)] = k


\* the frames a client sends once it accepted the relay's PresentSelf
HandshakeTypes == {"PresentSelf", "TreeOverview", "GetKeySet"}

\* c's worker takes a PresentSelf whose uuid differs from c's binding
Mismatched(c) ==
    /\ ClientRecv(c)
    /\ Head(r2c[c]).type = "PresentSelf"
    /\ serverUuid[c] # Unbound
    /\ serverUuid[c] # Head(r2c[c]).uuid

\* C16: a bound _server_uuid never changes, and a connected client that
\* receives PresentSelf with a uuid other than its binding disconnects,
\* records the error, keeps its binding and sends no PresentSelf, TreeOverview
\* or GetKeySet: its only frame is the close of the socket.
C16_BindingNeverChanges ==
    [][\A c \in Clients :
          /\ serverUuid[c] # Unbound => serverUuid'[c] = serverUuid[c]
          /\ Mismatched(c) =>
                /\ ~connected'[c]
                /\ error_message'[c] = UuidMismatch
                /\ c2r'[c] = Append(c2r[c], CloseFrame)
                /\ \A i \in 1..Len(c2r'[c]) : c2r'[c][i].type \notin HandshakeTypes]_vars

\* a client bound to another relay has just been turned away
C16_Witness ==
    \E c \in Clients :
        /\ serverUuid[c] = OtherUuid
        /\ error_message[c] = UuidMismatch
        /\ ~connected[c]
        /\ conn[c] = "open"


\* the relay's record under key carries the iterations of c's record
SameIterations(c, key) ==
    /\ key \in DOMAIN relayStore
    /\ relayStore[key].meta_iteration = store[c][key].meta_iteration
    /\ relayStore[key].data_iteration = store[c][key].data_iteration

\* the relay's store reflects the change c made while it had no connection
Reflected(c, change) ==
    IF change.kind = "Remove"
    THEN change.key \notin DOMAIN store[c] /\ change.key \notin DOMAIN relayStore
    ELSE change.key \in DOMAIN store[c] => SameIterations(c, change.key)

\* C17: once the clients are connected again and the tree-overview exchange
\* is quiescent, the relay's store reflects every change a client made while
\* it had no connection: a record it inserted or updated is at the relay with
\* the client's iterations, a record it removed is absent at both.
C17_OfflineChangesKept ==
    Quiescent =>
        \A c \in Clients : \A i \in 1..Len(dropped[c]) : Reflected(c, dropped[c][i])


\* the step is an open_tree call at c
Opens(c) ==
    /\ ops' = ops + 1
    /\ last'.op = "open_tree"
    /\ last'.node = c

\* the flag stored in c's descriptor stays what it was created with
FlagKept(c) ==
    descriptors[c] # <<>> =>
        /\ descriptors'[c] # <<>>
        /\ descriptors'[c][1].versioning = descriptors[c][1].versioning

\* the call opens an existing tree with a root type of the other flag
OtherFlag(c) ==
    /\ Opens(c)
    /\ descriptors[c] # <<>>
    /\ last'.root.versioning # descriptors[c][1].versioning

SameRootType(c) ==
    /\ Opens(c)
    /\ descriptors[c] # <<>>
    /\ last'.root.versioning = descriptors[c][1].versioning
    /\ Has(descriptors[c][1].evolutions, last'.root.evolution)
    /\ descriptors[c][1].evolutions[last'.root.evolution] = last'.root.tc

\* the call opens an existing tree with an evolution its descriptor lacks
UnseenEvolution(c) ==
    /\ Opens(c)
    /\ descriptors[c] # <<>>
    /\ last'.res = "Ok"
    /\ ~Has(descriptors[c][1].evolutions, last'.root.evolution)

\* C19: opening an existing tree again with the same root type and evolution
\* leaves the stored descriptor unchanged, and a successful open with an
\* evolution that is not a key of descriptor.evolutions leaves the stored
\* descriptor mapping that evolution to the reflected type collection.
C19_OpenRecordsEvolution ==
    [][\A c \in Clients :
          /\ SameRootType(c) => descriptors'[c] = descriptors[c]
          /\ UnseenEvolution(c) =>
                /\ Has(descriptors'[c][1].evolutions, last'.root.evolution)
                /\ descriptors'[c][1].evolutions[last'.root.evolution] = last'.root.tc]_vars


\* the collection stored for c's tree: the one of its latest evolution
StoredCollection(c) ==
    descriptors[c][1].evolutions[max_evolution(descriptors[c][1])]

\* the call opens an existing tree with a collection that is not
\* backward-compatible with the stored one
Incompatible(c) ==
    /\ Opens(c)
    /\ descriptors[c] # <<>>
    /\ last'.root.versioning = descriptors[c][1].versioning
    /\ ~is_backwards_compatible(StoredCollection(c), last'.root.tc)

\* C20: opening an existing tree with a reflected type collection that is not
\* backward-compatible with the stored one fails with EvolutionMismatch and
\* returns no tree handle, whether the code evolution is lower than, equal to
\* or greater than the stored maximum.
C20_IncompatibleRejected ==
    [][\A c \in Clients :
          Incompatible(c) =>
              /\ last'.res = "EvolutionMismatch"
              /\ last'.handle = <<>>]_vars


\* the root type of a collection
RootOf(tc) == tc.refs[tc.root]

\* pairwise equal field types of two field lists of one length
FieldTypesEqual(p, n) ==
    /\ Len(p) = Len(n)
    /\ \A i \in 1..Len(p) : p[i].ty = n[i].ty

\* two variants match: Unit/Unit, Unnamed/Unnamed with equal type lists,
\* Named/Named with pairwise equal field types
VariantsMatch(p, n) ==
    \/ p.fields.kind = "Unit" /\ n.fields.kind = "Unit"
    \/ p.fields.kind = "Unnamed" /\ n.fields.kind = "Unnamed"
          /\ p.fields.fields = n.fields.fields
    \/ p.fields.kind = "Named" /\ n.fields.kind = "Named"
          /\ FieldTypesEqual(p.fields.fields, n.fields.fields)

\* the reference predicate on two root types
Reference(p, n) ==
    \/ /\ p.kind = "Struct" /\ n.kind = "Struct"
       /\ Len(n.fields) >= Len(p.fields)
       /\ \A i \in 1..Len(p.fields) : p.fields[i].ty = n.fields[i].ty
    \/ /\ p.kind = "Enum" /\ n.kind = "Enum"
       /\ Len(p.variants) = Len(n.variants)
       /\ \A i \in 1..Len(p.variants) : VariantsMatch(p.variants[i], n.variants[i])

\* a comparison of two collections whose root type carries the same name
Compared ==
    /\ last.op = "is_backwards_compatible"
    /\ last.previous.root = last.next.root

NestedChanged ==
    /\ last.op = "is_backwards_compatible"
    /\ Has(last.previous.refs, "Inner")
    /\ Has(last.next.refs, "Inner")
    /\ ~Reference(last.previous.refs["Inner"], last.next.refs["Inner"])

\* C22: is_backwards_compatible is false when a struct or enum referenced
\* from the root changes a field type, drops a field or changes its variants.
C22_NestedChangeRejected == NestedChanged => ~last.res


\* the step is c's worker taking hot-sync frame ev of the given kind for a
\* key its tree holds
Applies(c, ev, kind) ==
    /\ ClientRecv(c)
    /\ Head(r2c[c]) = ev
    /\ ev.type = "HotSyncEvent"
    /\ ev.kind = kind
    /\ ev.key \in DOMAIN store[c]

\* frames in flight to client c
Inbound(c) == {r2c[c][i] : i \in 1..Len(r2c[c])}

\* C23: a CreatedOrChanged event for a key the node holds is dropped, leaving
\* the record and the index unchanged, when its meta_iteration or its
\* data_iteration is not above the stored one; otherwise the record is
\* overwritten with the event's meta, data and iterations.
C23_ChangedDroppedOrOverwrites ==
    [][\A c \in Clients : \A ev \in Inbound(c) :
          Applies(c, ev, "CreatedOrChanged") =>
              IF \/ ev.meta_iteration <= store[c][ev.key].meta_iteration
                 \/ ev.data_iteration <= store[c][ev.key].data_iteration
              THEN store'[c] = store[c] /\ index'[c] = index[c]
              ELSE store'[c][ev.key] =
                      Record(ev.key, ev.meta_iteration, ev.version, ev.modified_on,
                             ev.data_iteration, ev.data)]_vars

\* a client overwrote the live record and the frame that did it, delivered
\* once more, is waiting on its socket
C23_Witness ==
    \E c \in Clients : \E ev \in Inbound(c) :
        /\ ev.type = "HotSyncEvent"
        /\ ev.kind = "CreatedOrChanged"
        /\ ev.key \in DOMAIN store[c]
        /\ store[c][ev.key].data = ev.data
        /\ store[c][ev.key].meta_iteration = ev.meta_iteration
        /\ store[c][ev.key].data_iteration = ev.data_iteration
        /\ store[c][ev.key].modified_on = ev.modified_on


\* the meta and the data aspect of a stored record and of an event
MetaOf(r) == <<r.meta_iteration, r.version, r.modified_on>>
DataOf(r) == <<r.data_iteration, r.data>>

\* C24 as stated: each aspect of a CreatedOrChanged event is taken on its
\* own: data when data_iteration is above the stored one, meta when
\* meta_iteration is above the stored one, and an aspect whose iteration is
\* equal or lower is ignored.
C24_AspectsIndependent ==
    [][\A c \in Clients : \A ev \in Inbound(c) :
          Applies(c, ev, "CreatedOrChanged") =>
              LET old == store[c][ev.key] IN
              /\ ev.key \in DOMAIN store'[c]
              /\ DataOf(store'[c][ev.key]) =
                    IF ev.data_iteration > old.data_iteration
                    THEN DataOf(ev) ELSE DataOf(old)
              /\ MetaOf(store'[c][ev.key]) =
                    IF ev.meta_iteration > old.meta_iteration
                    THEN MetaOf(ev) ELSE MetaOf(old)]_vars

\* the event is above the stored record in exactly one of its iterations
OneSided(old, ev) ==
    (ev.data_iteration > old.data_iteration) #
        (ev.meta_iteration > old.meta_iteration)

\* C24: a CreatedOrChanged event is taken whole or not at all: when only one
\* of its iterations is above the stored one, neither the data nor the meta
\* is replaced; the stored record afterwards is the old one or carries both
\* aspects of the event.  Meta advances on its own only by MetaChanged.
C24_BothAspectsOrNone ==
    [][\A c \in Clients : \A ev \in Inbound(c) :
          /\ Applies(c, ev, "CreatedOrChanged") =>
                LET old == store[c][ev.key] IN
                /\ ev.key \in DOMAIN store'[c]
                /\ OneSided(old, ev) => store'[c][ev.key] = old
                /\ \/ store'[c][ev.key] = old
                   \/ /\ DataOf(store'[c][ev.key]) = DataOf(ev)
                      /\ MetaOf(store'[c][ev.key]) = MetaOf(ev)
          /\ Applies(c, ev, "MetaChanged")
                /\ ev.meta_iteration > store[c][ev.key].meta_iteration =>
                /\ MetaOf(store'[c][ev.key]) = MetaOf(ev)
                /\ DataOf(store'[c][ev.key]) = DataOf(store[c][ev.key])]_vars

\* a record that was overwritten before meets an event that is above it in
\* one iteration only
C24_Witness ==
    \E c \in Clients :
        /\ connected[c]
        /\ r2c[c] # <<>>
        /\ Head(r2c[c]).type = "HotSyncEvent"
        /\ Head(r2c[c]).kind = "CreatedOrChanged"
        /\ Head(r2c[c]).key \in DOMAIN store[c]
        /\ store[c][Head(r2c[c]).key].data_iteration > 0
        /\ OneSided(store[c][Head(r2c[c]).key], Head(r2c[c]))


\* the step is c's worker taking the MetaChanged frame ev
TakesMeta(c, ev) ==
    /\ ClientRecv(c)
    /\ Head(r2c[c]) = ev
    /\ ev.type = "HotSyncEvent"
    /\ ev.kind = "MetaChanged"

\* C25: a MetaChanged event creates nothing when the key is absent, changes
\* nothing when its meta_iteration is not above the stored one, and otherwise
\* replaces exactly the meta and meta_iteration: data and data_iteration stay
\* and no indexer runs.
C25_MetaChangedFrame ==
    [][\A c \in Clients : \A ev \in Inbound(c) :
          TakesMeta(c, ev) =>
              /\ index'[c] = index[c]
              /\ IF ev.key \notin DOMAIN store[c]
                 THEN store'[c] = store[c]
                 ELSE IF ev.meta_iteration <= store[c][ev.key].meta_iteration
                 THEN store'[c] = store[c]
                 ELSE store'[c] =
                        [store[c] EXCEPT ![ev.key] =
                            [@ EXCEPT !.meta_iteration = ev.meta_iteration,
                                      !.version = ev.version,
                                      !.modified_on = ev.modified_on]]]_vars

\* a client took the peer's meta change on top of the data it had
C25_Witness ==
    \E c \in Clients : \E key \in DOMAIN store[c] :
        /\ store[c][key].version = "Released"
        /\ store[c][key].modified_on = Peer
        /\ store[c][key].meta_iteration > 0
        /\ store[c][key].data_iteration = 0
        /\ store[c][key].data = FirstRecord.data


\* the step is c's worker taking the Removed frame ev
TakesRemoved(c, ev) ==
    /\ ClientRecv(c)
    /\ Head(r2c[c]) = ev
    /\ ev.type = "HotSyncEvent"
    /\ ev.kind = "Removed"

\* C26: the first Removed event for a key deletes the record and takes its
\* name out of the index; applied again, when the key is absent, it leaves
\* the tree and the index unchanged and the worker carries on.
C26_RemovedIdempotent ==
    [][\A c \in Clients : \A ev \in Inbound(c) :
          TakesRemoved(c, ev) =>
              /\ connected'[c]
              /\ IF ev.key \in DOMAIN store[c]
                 THEN /\ store'[c] = Del(store[c], ev.key)
                      /\ index'[c] = Del(index[c], Extract(store[c][ev.key].data))
                 ELSE store'[c] = store[c] /\ index'[c] = index[c]]_vars

\* a client that already deleted the record is about to take the second
\* Removed frame for it
C26_Witness ==
    \E c \in Clients :
        /\ connected[c]
        /\ r2c[c] # <<>>
        /\ Head(r2c[c]).type = "HotSyncEvent"
        /\ Head(r2c[c]).kind = "Removed"
        /\ Head(r2c[c]).key \in removed
        /\ Head(r2c[c]).key \notin DOMAIN store[c]
        /\ index[c] = EmptyMap

\* -----------------------------------------------------------------
\* Check-out queues
\* -----------------------------------------------------------------
\* the relay's queue for a key, a missing queue counting as empty
QueueOf(borrows, key) == IF Has(borrows, key) THEN borrows[key] ELSE <<>>

\* the relay task of a registered connection c takes frame msg of type t
RelayTakesQueue(c, msg, t) ==
    /\ RelayRecv(c)
    /\ Head(c2r[c]) = msg
    /\ msg.type = t
    /\ stateInfo[c].registered

NoDuplicates(queue) ==
    \A i, j \in 1..Len(queue) : queue[i] = queue[j] => i = j

\* C27: a CheckOut the relay takes from a registered client appends the
\* client's uuid to the back of the queue of each key of the frame unless the
\* uuid already waits there, and leaves every other queue alone; so no uuid
\* ever occurs twice in a queue, and a queue lists its nodes in the order the
\* relay took their CheckOut frames.
C27_CheckOutAppendsOnce ==
    /\ [](\A key \in DOMAIN relayBorrows : NoDuplicates(relayBorrows[key]))
    /\ [][\A c \in Clients : \A msg \in QueueFrames :
             RelayTakesQueue(c, msg, "CheckOut") =>
                 \A key \in QueueKeys :
                     LET old == QueueOf(relayBorrows, key)
                         new == QueueOf(relayBorrows', key)
                     IN IF SeqHas(msg.keys, key) /\ ~SeqHas(old, c)
                        THEN new = Append(old, c)
                        ELSE new = old]_vars

\* B queued first for the free record, A behind it, and a further CheckOut
\* of A for that record is on its way to the relay
C27_Witness ==
    /\ Has(relayBorrows, GenericKey(0, 0))
    /\ relayBorrows[GenericKey(0, 0)] = <<"B", "A">>
    /\ c2r["A"] # <<>>
    /\ Head(c2r["A"]).type = "CheckOut"
    /\ SeqHas(Head(c2r["A"]).keys, GenericKey(0, 0))

\* the Return frame msg of c pops the queue of key
Pops(c, msg, key) ==
    /\ SeqHas(msg.keys, key)
    /\ QueueOf(relayBorrows, key) # <<>>
    /\ Head(QueueOf(relayBorrows, key)) = c

\* the step put a BorrowsChanged event naming key on the broadcast channel
Announced(key) ==
    \E d \in Clients :
        /\ Len(bcast'[d]) = Len(bcast[d]) + 1
        /\ bcast'[d][Len(bcast'[d])].type = "BorrowsChanged"
        /\ SeqHas(bcast'[d][Len(bcast'[d])].keys, key)

\* C28 as claimed: a Return pops the queue of a key only when the caller is
\* its head, the others moving up in order; for a key whose queue the caller
\* does not head the queue stays as it is and no broadcast names that key.
C28_ReturnUnchangedSilent ==
    [][\A c \in Clients : \A msg \in QueueFrames :
          RelayTakesQueue(c, msg, "Return") =>
              \A key \in QueueKeys :
                  IF Pops(c, msg, key)
                  THEN QueueOf(relayBorrows', key) = Tail(QueueOf(relayBorrows, key))
                  ELSE /\ QueueOf(relayBorrows', key) = QueueOf(relayBorrows, key)
                       /\ ~Announced(key)]_vars

\* C28: a Return pops the queue of a key only when the caller is its head,
\* the others moving up in order, and leaves every other queue as it is; a
\* frame that pops no queue is not broadcast, a frame that pops one is
\* broadcast once to every connection as BorrowsChanged with all its keys.
C28_ReturnHeadOnly ==
    [][\A c \in Clients : \A msg \in QueueFrames :
          RelayTakesQueue(c, msg, "Return") =>
              /\ \A key \in QueueKeys :
                     QueueOf(relayBorrows', key) =
                         IF Pops(c, msg, key) THEN Tail(QueueOf(relayBorrows, key))
                         ELSE QueueOf(relayBorrows, key)
              /\ bcast' = IF \E key \in QueueKeys : Pops(c, msg, key)
                          THEN Publish(<<BorrowsChanged(msg.keys)>>)
                          ELSE bcast]_vars

\* A, the head, is about to return the record together with a key it does
\* not head, while B, waiting behind A, is about to return the record too
C28_Witness ==
    /\ QueueOf(relayBorrows, GenericKey(0, 0)) = <<"A", "B">>
    /\ ~Has(relayBorrows, GenericKey(1, 0))
    /\ stateInfo["A"].registered /\ stateInfo["B"].registered
    /\ c2r["A"] # <<>>
    /\ Head(c2r["A"]) = ReturnEv(<<GenericKey(0, 0), GenericKey(1, 0)>>)
    /\ c2r["B"] # <<>>
    /\ Head(c2r["B"]) = ReturnEv(<<GenericKey(0, 0)>>)

\* the CheckedOut frames that announce the present queues of keys, one per
\* key, an evicted queue being announced as empty
RECURSIVE Announcements(_)
Announcements(keys) ==
    IF keys = <<>> THEN <<>>
    ELSE <<CheckedOut(Head(keys), QueueOf(relayBorrows, Head(keys)))>>
             \o Announcements(Tail(keys))

\* connection task d takes a BorrowsChanged event off the broadcast channel
TakesBorrowsChanged(d) ==
    /\ RelayBroadcast(d)
    /\ Head(bcast[d]).type = "BorrowsChanged"

\* C29: a step of the relay that changes the queue of a key (a CheckOut that
\* enqueues, a Return that dequeues, a Removed that evicts a queue somebody
\* was in) puts a BorrowsChanged event naming the key on the channel of every
\* connection, and a connection task that takes such an event sends a
\* CheckedOut frame with the present queue of each key it names, empty when
\* the queue is gone.
C29_QueueChangeAnnounced ==
    [][/\ \A key \in QueueKeys :
              QueueOf(relayBorrows', key) # QueueOf(relayBorrows, key) =>
                  \A d \in Clients :
                      Subscribed(d) =>
                          /\ Len(bcast'[d]) = Len(bcast[d]) + 1
                          /\ bcast'[d][Len(bcast'[d])].type = "BorrowsChanged"
                          /\ SeqHas(bcast'[d][Len(bcast'[d])].keys, key)
       /\ \A d \in Clients :
              TakesBorrowsChanged(d) =>
                  r2c'[d] = r2c[d] \o Announcements(Head(bcast[d]).keys)]_vars

TakesAcceptablePresentSelf(c) ==
    /\ ClientRecv(c)
    /\ Head(r2c[c]).type = "PresentSelf"
    /\ serverUuid[c] \in {Unbound, Head(r2c[c]).uuid}

\* C31: on the relay's PresentSelf with an acceptable uuid the worker keeps
\* the session, is bound to that uuid afterwards, and sends its own
\* PresentSelf, then the overview of its tree, then a GetKeySet if the key
\* pool holds fewer than 3 ids.
C31_HandshakeSendsOverview ==
    [][\A c \in Clients :
          TakesAcceptablePresentSelf(c) =>
              /\ connected'[c]
              /\ serverUuid'[c] = Head(r2c[c]).uuid
              /\ c2r'[c] = c2r[c]
                    \o <<PresentSelf(c), TreeOverview(Overview(store[c]))>>
                    \o (IF total_keys_available(pool[c]) < MinKeysAvailable
                        THEN <<GetKeySet>> ELSE <<>>)]_vars

\* C32: a Close frame, the end of the stream or a transport error, met while
\* the worker receives or while it sends a local change, leaves the worker
\* running and disconnected, so that it takes the next Connect command.
C32_FailureResetsWorker ==
    [][\A c \in Clients :
          (ClientRecvFails(c) \/ ClientSendFails(c)) =>
              /\ ~connected'[c]
              /\ worker'[c] = "running"]_vars

\* the frames the step appended to the relay's socket to c
SentTo(c) ==
    {r2c'[c][i] : i \in (Len(r2c[c]) + 1)..Len(r2c'[c])}

C34_NoRecordForTombstone ==
    (\A c \in Clients : hot[c] = <<>>) => DOMAIN relayStore \cap removed = {}

\* connection task c takes a Removed event for key and evicts its queue
Evicts(c, key) ==
    /\ RelayRecv(c)
    /\ Head(c2r[c]).type = "HotSyncEvent"
    /\ Head(c2r[c]).kind = "Removed"
    /\ Head(c2r[c]).key = key
    /\ ~Has(relayBorrows', key)

\* C35: a uuid leaves a check-out queue of the relay only in a step that
\* takes its own Return while it heads the queue, or in a step that takes a
\* Removed event for the key and drops the whole queue; the step in which a
\* connection task meets the Close of its socket leaves every queue as it is.
C35_QueueShrinksByReturnOrRemoved ==
    [][/\ \A key \in QueueKeys : \A u \in Clients :
              (/\ SeqHas(QueueOf(relayBorrows, key), u)
               /\ ~SeqHas(QueueOf(relayBorrows', key), u)) =>
                  \/ /\ c2r[u] # <<>>
                     /\ RelayTakesQueue(u, Head(c2r[u]), "Return")
                     /\ Pops(u, Head(c2r[u]), key)
                  \/ \E c \in Clients : Evicts(c, key)
       /\ \A c \in Clients :
              (RelayRecv(c) /\ Head(c2r[c]).type = "Close") =>
                  relayBorrows' = relayBorrows]_vars

\* A heads the queue of the live record although its connection is gone
C35_Witness ==
    /\ conn["A"] = "none"
    /\ ~connected["A"]
    /\ c2r["A"] = <<>>
    /\ QueueOf(relayBorrows, GenericKey(0, 0)) # <<>>
    /\ Head(QueueOf(relayBorrows, GenericKey(0, 0))) = "A"

\* c's check_out command is with its worker
Requested(c) ==
    \E i \in 1..Len(cmdq[c]) :
        cmdq[c][i] = [cmd |-> "CheckOut", key |-> GenericKey(0, 0)]

\* c heads the relay's queue and its own is_checked_out says so
Granted(c) ==
    /\ is_checked_out(relayBorrows, c, GenericKey(0, 0))
    /\ is_checked_out(mirror[c], c, GenericKey(0, 0))

C38_NewTreeGetsKeys ==
    Quiescent =>
        \A c \in Clients :
            descriptors[c] # <<>> => total_keys_available(pool[c]) > 0

\* the ranges the relay has persisted for uuid
Persisted(uuid) == IF Has(clientsTree, uuid) THEN clientsTree[uuid] ELSE <<>>

\* a registered session checks ownership against every persisted range
SessionHoldsPersisted(c) ==
    stateInfo[c].registered =>
        \A i \in 1..Len(Persisted(c)) : SeqHas(stateInfo[c].key_ranges, Persisted(c)[i])

\* the step keeps every persisted range of every ClientInfo record
RangesKept ==
    \A uuid \in DOMAIN clientsTree :
        /\ uuid \in DOMAIN clientsTree'
        /\ \A i \in 1..Len(clientsTree[uuid]) : SeqHas(clientsTree'[uuid], clientsTree[uuid][i])

\* the range sent in the KeySet reply is in the client's persisted record
ReplyPersisted(c) ==
    RelayGetKeySetWrite(c) =>
        /\ r2c'[c][Len(r2c'[c])].type = "KeySet"
        /\ Has(clientsTree', c)
        /\ SeqHas(clientsTree'[c], r2c'[c][Len(r2c'[c])].keys)

\* no range is in the records of two clients
RangesUnshared ==
    \A x \in Issued, y \in Issued : x[1] # y[1] => RangeOf(x) # RangeOf(y)

\* C39: a range issued in reply to GetKeySet is persisted under the client's
\* uuid, every registered session of that uuid owns the ids of its persisted
\* ranges, no step removes a persisted range, and no range is in the records
\* of two clients.
C39_RangesDurablePerUuid ==
    /\ [](RangesUnshared /\ \A c \in Clients : SessionHoldsPersisted(c))
    /\ [][RangesKept /\ \A c \in Clients : ReplyPersisted(c)]_vars

\* every index entry of c that maps to another key than key is kept
OtherEntriesKept(c, key) ==
    \A s \in DOMAIN index[c] :
        index[c][s] # key => Has(index'[c], s) /\ index'[c][s] = index[c][s]

\* C40: when a node handles the removal of key K, by a local remove or by
\* an inbound Removed event, every index entry that maps to a key other
\* than K is still in the index afterwards.
C40_RemoveKeepsOtherEntries ==
    [][\A c \in Clients :
          /\ \A ev \in Inbound(c) : TakesRemoved(c, ev) => OtherEntriesKept(c, ev.key)
          /\ \A key \in ApiKeys : Remove(c, key) => OtherEntriesKept(c, key)]_vars

====
